---- MODULE Spec2Model ----
(***************************************************************************)
(* Model of the build engine of w2a: the dependency graph of               *)
(* internal/dag (construction and parallel execution) and the audio job    *)
(* builder with its file cache of internal/audio.                          *)
(*                                                                         *)
(* Node ids are the indices of Dag.nodes; the Go code counts them from 0,  *)
(* the sequences here count from 1.                                        *)
(***************************************************************************)
EXTENDS Integers, Sequences, FiniteSets, TLC

\* ---------------------------------------------------------------------
\* Bounds
\* ---------------------------------------------------------------------
\* longest chain passed to AddChain
MaxChain == 3
\* number of roots that share one leaf in the fan-in graphs
FanIn == 2
\* run functions return a value of 1..MaxVal (0 is the zero value of T)
MaxVal == 2

\* a value implementing the Node interface: Hash(), Name(), Run. The nodes
\* offered to the graph-construction calls have the hashes 1, 2, 3; two Node
\* objects may carry the same hash: "first" and "other" tell them apart
NodeObjs == {[hash |-> h, name |-> o, run |-> o] : h \in {1, 2, 3}, o \in {"first", "other"}}
FirstObjs == {n \in NodeObjs : n.name = "first"}

VARIABLES
    d,      \* the Dag: [hashToIdx, nodes]; a node is [id, name, runFunc, children]
    gop,    \* the last graph-construction call: [op, args, err]
    \* --- one call of runNodes ---
    roots,            \* the nodes slice passed to runNodes (node ids)
    rootsErr,         \* the error of rootNodes, when RunRootNodes got one
    lock,             \* node.lock: the task holding it, or Free
    runFuncExecuted,  \* node.runFuncExecuted
    result,           \* node.result
    tasks,            \* the goroutines evaluating node.run, by call path
    done,             \* runNodes: done[i]
    results,          \* runNodes: results[i]
    errs,             \* runNodes: errs[i]
    cons,             \* the consuming loop of runNodes: [pc, i, awake, val, err]
    cancelled,        \* the ambient context is cancelled
    \* --- history (not program state) ---
    calls,            \* per node: number of invocations of runFunc
    returned,         \* per node: the values its runFunc returned without error
    order,            \* the root indices in the order their goroutines finished
    yielded,          \* the pairs handed to yield, in order
    \* --- internal/audio ---
    built,            \* cmdBuilder calls made so far: [spec, job]
    lookup,           \* the last call of useExistingFile and its outcome
    plan,             \* the input of one engine run: [format, tts, files]
    fc,               \* the FileCreator and the position of BatchCreate
    disk,             \* the files of the temp and output directories
    existing,         \* existingFilePaths: hash -> set of paths
    procs,            \* history: the subprocesses started in this run
    hist              \* history: one summary per finished engine run

graphVars == <<d, gop>>
nodeVars == <<lock, runFuncExecuted, result, calls, returned>>
streamVars == <<done, results, errs, cons, order, yielded>>
runVars == <<roots, rootsErr, tasks, cancelled, nodeVars, streamVars>>
audioVars == <<built, lookup, plan, fc, disk, existing, procs, hist>>
vars == <<graphVars, runVars, audioVars>>

\* ---------------------------------------------------------------------
\* internal/dag: graph construction
\* ---------------------------------------------------------------------
NoErr == "nil"
ErrCyclic == "cyclic dependency"

New == [hashToIdx |-> <<>>, nodes |-> <<>>]

\* mutant: the node stored under the hash takes the name and the run
\* function of the latest insertion
addNode_replace(g, n) ==
    IF n.hash \in DOMAIN g.hashToIdx
    THEN [d  |-> [g EXCEPT !.nodes[g.hashToIdx[n.hash]].name = n.name,
                           !.nodes[g.hashToIdx[n.hash]].runFunc = n.run],
          id |-> g.hashToIdx[n.hash]]
    ELSE [d  |-> [hashToIdx |-> g.hashToIdx @@ (n.hash :> (Len(g.nodes) + 1)),
                  nodes     |-> Append(g.nodes,
                                       [id |-> Len(g.nodes) + 1, name |-> n.name,
                                        runFunc |-> n.run, children |-> <<>>])],
          id |-> Len(g.nodes) + 1]

\* mutant: every insertion appends a node, the hash is not looked up
addNode_append(g, n) ==
    LET id == Len(g.nodes) + 1
    IN  [d  |-> [hashToIdx |-> (n.hash :> id) @@ g.hashToIdx,
                 nodes     |-> Append(g.nodes,
                                      [id |-> id, name |-> n.name,
                                       runFunc |-> n.run, children |-> <<>>])],
         id |-> id]

addNode(g, n) ==
    IF n.hash \in DOMAIN g.hashToIdx
    THEN [d |-> g, id |-> g.hashToIdx[n.hash]]
    ELSE LET id == Len(g.nodes) + 1
         IN  [d  |-> [hashToIdx |-> g.hashToIdx @@ (n.hash :> id),
                      nodes     |-> Append(g.nodes,
                                           [id |-> id, name |-> n.name,
                                            runFunc |-> n.run, children |-> <<>>])],
              id |-> id]

\* mutant: the children slice is not searched
hasChild_never(g, parent, childID) == FALSE

hasChild(g, parent, childID) ==
    \E i \in DOMAIN g.nodes[parent].children : g.nodes[parent].children[i] = childID

RECURSIVE dfs(_, _, _, _)
RECURSIVE dfsChildren(_, _, _, _, _)
\* depth-first search with the visited map shared across the recursion
dfs(g, src, dst, visited) ==
    IF src = dst
    THEN [found |-> TRUE, visited |-> visited]
    ELSE dfsChildren(g, g.nodes[src].children, 1, dst, visited \cup {src})

dfsChildren(g, cs, i, dst, visited) ==
    IF i > Len(cs)
    THEN [found |-> FALSE, visited |-> visited]
    ELSE IF cs[i] \notin visited
         THEN LET r == dfs(g, cs[i], dst, visited)
              IN  IF r.found THEN r ELSE dfsChildren(g, cs, i + 1, dst, r.visited)
         ELSE dfsChildren(g, cs, i + 1, dst, visited)

\* mutant: the search stops at the direct children
hasPath_direct(g, src, dst) == src = dst \/ hasChild(g, src, dst)

hasPath(g, src, dst) == dfs(g, src, dst, {}).found

\* mutant: the edge is appended before the search for a cycle
AddEdge_appendFirst(g, parent, child) ==
    LET a  == addNode(g, parent)
        b  == addNode(a.d, child)
        g2 == b.d
        g3 == [g2 EXCEPT !.nodes[a.id].children = Append(@, b.id)]
    IN  IF hasChild(g2, a.id, b.id)
        THEN [d |-> g2, err |-> NoErr]
        ELSE IF hasPath(g2, b.id, a.id)
             THEN [d |-> g3, err |-> ErrCyclic]
             ELSE [d |-> g3, err |-> NoErr]

AddEdge(g, parent, child) ==
    LET a  == addNode(g, parent)
        b  == addNode(a.d, child)
        g2 == b.d
    IN  IF hasChild(g2, a.id, b.id)
        THEN [d |-> g2, err |-> NoErr]
        ELSE IF hasPath(g2, b.id, a.id)
             THEN [d |-> g2, err |-> ErrCyclic]
             ELSE [d   |-> [g2 EXCEPT !.nodes[a.id].children = Append(@, b.id)],
                   err |-> NoErr]

RECURSIVE AddChainFrom(_, _, _, _)
\* the loop of AddChain: parent is nodes[i-1], the next link is nodes[i]
AddChainFrom(g, ns, parent, i) ==
    IF i > Len(ns)
    THEN [d |-> g, err |-> NoErr]
    ELSE LET g1 == addNode(g, parent).d
             g2 == addNode(g1, ns[i]).d
             r  == AddEdge(g2, parent, ns[i])
         IN  IF r.err # NoErr THEN r ELSE AddChainFrom(r.d, ns, ns[i], i + 1)

AddChain(g, ns) ==
    IF Len(ns) = 1
    THEN [d |-> addNode(g, ns[1]).d, err |-> NoErr]
    ELSE AddChainFrom(g, ns, ns[1], 2)

RECURSIVE AddEdgesFrom(_, _, _)
AddEdgesFrom(g, edges, i) ==
    IF i > Len(edges)
    THEN [d |-> g, err |-> NoErr]
    ELSE LET r == AddEdge(g, edges[i][1], edges[i][2])
         IN  IF r.err # NoErr THEN r ELSE AddEdgesFrom(r.d, edges, i + 1)

AddEdges(g, edges) == AddEdgesFrom(g, edges, 1)

\* ---------------------------------------------------------------------
\* Graph-construction specification: any sequence of AddEdge, AddEdges
\* and AddChain calls on a new Dag.
\* ---------------------------------------------------------------------
NoOp == [op |-> "New", args |-> <<>>, err |-> NoErr]

DoAddEdge(p, c) ==
    LET r == AddEdge(d, p, c)
    IN  /\ d' = r.d
        /\ gop' = [op |-> "AddEdge", args |-> <<p, c>>, err |-> r.err]
        /\ UNCHANGED <<runVars, audioVars>>

DoAddChain(ns) ==
    LET r == AddChain(d, ns)
    IN  /\ d' = r.d
        /\ gop' = [op |-> "AddChain", args |-> ns, err |-> r.err]
        /\ UNCHANGED <<runVars, audioVars>>

DoAddEdges(es) ==
    LET r == AddEdges(d, es)
    IN  /\ d' = r.d
        /\ gop' = [op |-> "AddEdges", args |-> es, err |-> r.err]
        /\ UNCHANGED <<runVars, audioVars>>

\* ---------------------------------------------------------------------
\* internal/dag: execution
\* ---------------------------------------------------------------------
ErrOrphaned == "orphaned"
Free == <<>>
Zero == 0          \* the zero value of T
Nil == 0           \* the nil error; the error of node n's runFunc is n
Vals == 1..MaxVal

Ids(g) == 1..Len(g.nodes)
Children(g, n) == g.nodes[n].children
ChildSet(g, n) == {Children(g, n)[i] : i \in DOMAIN Children(g, n)}

RECURSIVE rootNodesFrom_noOrphans(_, _, _)
\* mutant: a node without parent is a root, with children or without
rootNodesFrom_noOrphans(g, id, acc) ==
    IF id > Len(g.nodes)
    THEN [roots |-> acc, err |-> NoErr]
    ELSE IF id \notin UNION {ChildSet(g, n) : n \in Ids(g)}
         THEN rootNodesFrom_noOrphans(g, id + 1, Append(acc, id))
         ELSE rootNodesFrom_noOrphans(g, id + 1, acc)

RECURSIVE rootNodesFrom(_, _, _)
\* the second loop of rootNodes, over the node ids in order
rootNodesFrom(g, id, acc) ==
    IF id > Len(g.nodes)
    THEN [roots |-> acc, err |-> NoErr]
    ELSE IF id \notin UNION {ChildSet(g, n) : n \in Ids(g)}
         THEN IF Len(g.nodes) > 1 /\ Children(g, id) = <<>>
              THEN [roots |-> <<>>, err |-> ErrOrphaned]
              ELSE rootNodesFrom(g, id + 1, Append(acc, id))
         ELSE rootNodesFrom(g, id + 1, acc)

rootNodes(g) == rootNodesFrom(g, 1, <<>>)

RECURSIVE nodesToRunFrom(_, _, _, _)
\* the loop of RunNodes: nodes whose hash is unknown are dropped
nodesToRunFrom(g, ns, i, acc) ==
    IF i > Len(ns)
    THEN acc
    ELSE IF ns[i].hash \in DOMAIN g.hashToIdx
         THEN nodesToRunFrom(g, ns, i + 1, Append(acc, g.hashToIdx[ns[i].hash]))
         ELSE nodesToRunFrom(g, ns, i + 1, acc)

RunNodes(g, ns) == [roots |-> nodesToRunFrom(g, ns, 1, <<>>), err |-> NoErr]
RunRootNodes(g) == rootNodes(g)

\* a task is one call of node.run, named by its call path: the index of the
\* root goroutine followed by the positions in the children slices
Parent(t) == SubSeq(t, 1, Len(t) - 1)
Kids(t) == {t \o <<i>> : i \in DOMAIN Children(d, tasks[t].node)}
\* vals is the results slice of runChildren, which is handed to runFunc
NewTask(n) == [node |-> n, pc |-> "lock", val |-> Zero, err |-> Nil, gerr |-> Nil, vals |-> <<>>]

\* mutant: the results are collected in the order in which the children return
Store_asReturned(ts, t, val, err) ==
    IF Len(t) > 1 /\ err = Nil
    THEN LET vs   == ts[Parent(t)].vals
             free == {i \in DOMAIN vs : vs[i] = Zero}
         IN  IF free = {} THEN ts
             ELSE [ts EXCEPT ![Parent(t)].vals[CHOOSE i \in free : \A j \in free : i <= j] = val]
    ELSE ts

\* the goroutine of runChildren for child t[Len(t)]: results[i] = val when
\* the evaluation of the child returned without error
Store(ts, t, val, err) ==
    IF Len(t) > 1 /\ err = Nil THEN [ts EXCEPT ![Parent(t)].vals[t[Len(t)]] = val] ELSE ts

\* mutant: the error of a child is dropped instead of handed to the errgroup
Return_dropErr(t, val, err) ==
    Store([tasks EXCEPT ![t].pc = "done", ![t].val = val, ![t].err = err], t, val, err)

\* the return of node.run in task t; an error is handed to the errgroup of
\* the caller, which keeps the first one
Return(t, val, err) ==
    LET t1 == Store([tasks EXCEPT ![t].pc = "done", ![t].val = val, ![t].err = err],
                    t, val, err)
    IN  IF Len(t) > 1 /\ err # Nil /\ t1[Parent(t)].gerr = Nil
        THEN [t1 EXCEPT ![Parent(t)].gerr = err]
        ELSE t1

\* mutant: the lock is released after the executed flag has been read
runEnter_fastPath(t) ==
    LET n == tasks[t].node
    IN  /\ tasks[t].pc = "lock"
        /\ lock[n] = Free
        /\ IF runFuncExecuted[n]
           THEN /\ tasks' = Return(t, result[n], Nil)
                /\ UNCHANGED calls
           ELSE IF Len(Children(d, n)) > 0
                THEN /\ tasks' = [k \in Kids(t) |-> NewTask(Children(d, n)[k[Len(k)]])]
                                 @@ [tasks EXCEPT ![t].pc = "wait",
                                                  ![t].vals = [i \in DOMAIN Children(d, n) |-> Zero]]
                     /\ UNCHANGED calls
                ELSE /\ tasks' = [tasks EXCEPT ![t].pc = "runFunc"]
                     /\ calls' = [calls EXCEPT ![n] = @ + 1]
        /\ UNCHANGED <<graphVars, audioVars, roots, rootsErr, cancelled, runFuncExecuted,
                       result, returned, streamVars, lock>>

\* node.run up to the first point where it blocks: takes the lock, returns
\* the memoized result, or starts the children, or (no children) calls runFunc
runEnter(t) ==
    LET n == tasks[t].node
    IN  /\ tasks[t].pc = "lock"
        /\ lock[n] = Free
        /\ IF runFuncExecuted[n]
           THEN /\ tasks' = Return(t, result[n], Nil)
                /\ UNCHANGED <<lock, calls>>
           ELSE IF Len(Children(d, n)) > 0
                THEN /\ tasks' = [k \in Kids(t) |-> NewTask(Children(d, n)[k[Len(k)]])]
                                 @@ [tasks EXCEPT ![t].pc = "wait",
                                                  ![t].vals = [i \in DOMAIN Children(d, n) |-> Zero]]
                     /\ lock' = [lock EXCEPT ![n] = t]
                     /\ UNCHANGED calls
                ELSE /\ tasks' = [tasks EXCEPT ![t].pc = "runFunc"]
                     /\ lock' = [lock EXCEPT ![n] = t]
                     /\ calls' = [calls EXCEPT ![n] = @ + 1]
        /\ UNCHANGED <<graphVars, audioVars, roots, rootsErr, cancelled, runFuncExecuted,
                       result, returned, streamVars>>

\* mutant: the wait ends with the first child that returns
AllKidsDone_any(t) == \E k \in Kids(t) : tasks[k].pc = "done"

AllKidsDone(t) == \A k \in Kids(t) : tasks[k].pc = "done"

\* runChildren returns: errg.Wait() has seen every child return
runChildrenReturn(t) ==
    LET n == tasks[t].node
    IN  /\ tasks[t].pc = "wait"
        /\ AllKidsDone(t)
        /\ IF tasks[t].gerr # Nil
           THEN /\ tasks' = Return(t, Zero, tasks[t].gerr)
                /\ lock' = [lock EXCEPT ![n] = Free]
                /\ UNCHANGED calls
           ELSE /\ tasks' = [tasks EXCEPT ![t].pc = "runFunc"]
                /\ calls' = [calls EXCEPT ![n] = @ + 1]
                /\ UNCHANGED lock
        /\ UNCHANGED <<graphVars, audioVars, roots, rootsErr, cancelled, runFuncExecuted,
                       result, returned, streamVars>>

\* mutant: the result is stored but the node is not marked as executed
runFuncOk_noFlag(t, v) ==
    LET n == tasks[t].node
    IN  /\ tasks[t].pc = "runFunc"
        /\ result' = [result EXCEPT ![n] = v]
        /\ returned' = [returned EXCEPT ![n] = Append(@, v)]
        /\ tasks' = Return(t, v, Nil)
        /\ lock' = [lock EXCEPT ![n] = Free]
        /\ UNCHANGED <<graphVars, audioVars, roots, rootsErr, cancelled, calls, streamVars,
                       runFuncExecuted>>

\* runFunc returns (v, nil): the result is memoized
runFuncOk(t, v) ==
    LET n == tasks[t].node
    IN  /\ tasks[t].pc = "runFunc"
        /\ result' = [result EXCEPT ![n] = v]
        /\ runFuncExecuted' = [runFuncExecuted EXCEPT ![n] = TRUE]
        /\ returned' = [returned EXCEPT ![n] = Append(@, v)]
        /\ tasks' = Return(t, v, Nil)
        /\ lock' = [lock EXCEPT ![n] = Free]
        /\ UNCHANGED <<graphVars, audioVars, roots, rootsErr, cancelled, calls, streamVars>>

\* mutant: the value that came with the error is stored as the result
runFuncErr_storeResult(t) ==
    LET n == tasks[t].node
    IN  /\ tasks[t].pc = "runFunc"
        /\ \E v \in Vals : result' = [result EXCEPT ![n] = v]
        /\ tasks' = Return(t, Zero, n)
        /\ lock' = [lock EXCEPT ![n] = Free]
        /\ UNCHANGED <<graphVars, audioVars, roots, rootsErr, cancelled, runFuncExecuted,
                       calls, returned, streamVars>>

\* mutant: the lock is not released when runFunc returns an error
runFuncErr_keepLock(t) ==
    LET n == tasks[t].node
    IN  /\ tasks[t].pc = "runFunc"
        /\ tasks' = Return(t, Zero, n)
        /\ UNCHANGED <<graphVars, audioVars, roots, rootsErr, cancelled, runFuncExecuted,
                       result, calls, returned, streamVars, lock>>

\* runFunc returns an error
runFuncErr(t) ==
    LET n == tasks[t].node
    IN  /\ tasks[t].pc = "runFunc"
        /\ tasks' = Return(t, Zero, n)
        /\ lock' = [lock EXCEPT ![n] = Free]
        /\ UNCHANGED <<graphVars, audioVars, roots, rootsErr, cancelled, runFuncExecuted,
                       result, calls, returned, streamVars>>

\* the tail of a root goroutine of runNodes: publishes the outcome under mu
\* and broadcasts on cond
rootDone(i) ==
    /\ tasks[<<i>>].pc = "done"
    /\ ~done[i]
    /\ results' = [results EXCEPT ![i] = tasks[<<i>>].val]
    /\ errs' = [errs EXCEPT ![i] = tasks[<<i>>].err]
    /\ done' = [done EXCEPT ![i] = TRUE]
    /\ cons' = IF cons.pc = "waiting" THEN [cons EXCEPT !.awake = TRUE] ELSE cons
    /\ order' = Append(order, i)
    /\ UNCHANGED <<graphVars, audioVars, roots, rootsErr, tasks, cancelled, nodeVars, yielded>>

\* mutant: the loop hands out the latest root that finished
loopTest_latest(c) ==
    IF c.i > Len(roots)
    THEN [c EXCEPT !.pc = "returned"]
    ELSE IF done[c.i]
         THEN [c EXCEPT !.pc = "yield", !.val = results[order[Len(order)]],
                        !.err = errs[order[Len(order)]]]
         ELSE [c EXCEPT !.pc = "poll"]

\* the loop test `for !done[i]` evaluated with mu held
loopTest(c) ==
    IF c.i > Len(roots)
    THEN [c EXCEPT !.pc = "returned"]
    ELSE IF done[c.i]
         THEN [c EXCEPT !.pc = "yield", !.val = results[c.i], !.err = errs[c.i]]
         ELSE [c EXCEPT !.pc = "poll"]

\* consumer: mu.Lock() at the head of the loop over the roots
consLock ==
    /\ cons.pc = "head"
    /\ cons' = loopTest(cons)
    /\ UNCHANGED <<graphVars, audioVars, roots, rootsErr, tasks, cancelled, nodeVars,
                   done, results, errs, order, yielded>>

\* consumer: after mu.Unlock(), the select on ctx.Done(), then mu.Lock() and
\* cond.Wait()
consPoll ==
    /\ cons.pc = "poll"
    /\ cons' = IF cancelled
               THEN [cons EXCEPT !.pc = "returned"]
               ELSE [cons EXCEPT !.pc = "waiting", !.awake = FALSE]
    /\ UNCHANGED <<graphVars, audioVars, roots, rootsErr, tasks, cancelled, nodeVars,
                   done, results, errs, order, yielded>>

\* consumer: cond.Wait() returns after a Broadcast
consWake ==
    /\ cons.pc = "waiting"
    /\ cons.awake
    /\ cons' = loopTest([cons EXCEPT !.awake = FALSE])
    /\ UNCHANGED <<graphVars, audioVars, roots, rootsErr, tasks, cancelled, nodeVars,
                   done, results, errs, order, yielded>>

\* consumer: yield(val, err) is called
consYield ==
    /\ cons.pc = "yield"
    /\ yielded' = Append(yielded, [idx |-> cons.i, val |-> cons.val, err |-> cons.err])
    /\ cons' = [cons EXCEPT !.pc = "yielded"]
    /\ UNCHANGED <<graphVars, audioVars, roots, rootsErr, tasks, cancelled, nodeVars,
                   done, results, errs, order>>

\* mutant: only an error ends the loop, the context is not looked at
consNext_noCtx ==
    /\ cons.pc = "yielded"
    /\ cons' = IF cons.err # Nil
               THEN [cons EXCEPT !.pc = "returned"]
               ELSE [cons EXCEPT !.pc = "head", !.i = @ + 1]
    /\ UNCHANGED <<graphVars, audioVars, roots, rootsErr, tasks, cancelled, nodeVars,
                   done, results, errs, order, yielded>>

\* consumer: yield returned; `err != nil || ctx.Err() != nil` ends the loop
consNext ==
    /\ cons.pc = "yielded"
    /\ cons' = IF cons.err # Nil \/ cancelled
               THEN [cons EXCEPT !.pc = "returned"]
               ELSE [cons EXCEPT !.pc = "head", !.i = @ + 1]
    /\ UNCHANGED <<graphVars, audioVars, roots, rootsErr, tasks, cancelled, nodeVars,
                   done, results, errs, order, yielded>>

\* RunRootNodes when rootNodes failed: the sequence yields (zero, err) once
consRootsErr ==
    /\ cons.pc = "rootsErr"
    /\ yielded' = Append(yielded, [idx |-> 0, val |-> Zero, err |-> rootsErr])
    /\ cons' = [cons EXCEPT !.pc = "returned"]
    /\ UNCHANGED <<graphVars, audioVars, roots, rootsErr, tasks, cancelled, nodeVars,
                   done, results, errs, order>>

\* the caller cancels the ambient context
cancel ==
    /\ ~cancelled
    /\ cancelled' = TRUE
    /\ UNCHANGED <<graphVars, audioVars, roots, rootsErr, tasks, nodeVars, streamVars>>

\* ---------------------------------------------------------------------
\* internal/audio: strings, fingerprints and jobs
\* ---------------------------------------------------------------------
\* A Go string that is an argument or a file name is kept in four parts,
\* dir/stem hash ext: `hash` is "" or the placeholder "<hash>" or the
\* seven characters that end the name before its extension.
Placeholder == "<hash>"
Str(dir, stem, hash, ext) == [dir |-> dir, stem |-> stem, hash |-> hash, ext |-> ext]
Lit(s) == Str("", s, "", "")
\* the characters of the string
Render(a) == (IF a.dir = "" THEN "" ELSE a.dir \o "/") \o a.stem \o a.hash \o a.ext
\* filepath.Base, filepath.Ext, filepath.Join(dir, name), filepath.Dir
BasePath(a) == [a EXCEPT !.dir = ""]
ExtOf(a) == Str("", "", "", a.ext)
Join(dir, name) == [name EXCEPT !.dir = dir]
\* time.Duration printed with %s, and its seconds printed with %.2f
DurStr(n) == ToString(n) \o "s"
SecStr(n) == ToString(n) \o ".00"

RECURSIVE JoinStrings(_, _)
\* the encoding of a []string: every element with its length
JoinStrings(ss, i) ==
    IF i > Len(ss) THEN "" ELSE
    ToString(Len(ss[i])) \o ":" \o ss[i] \o " " \o JoinStrings(ss, i + 1)

\* the digest is treated as injective: it is the text of what is hashed,
\* the string followed by the encoding of each further value
RECURSIVE Encode(_, _)
Encode(data, i) ==
    IF i > Len(data) THEN "" ELSE
    (IF data[i].list THEN "[" \o JoinStrings(data[i].v, 1) \o "]"
     ELSE "'" \o data[i].v \o "'") \o Encode(data, i + 1)

hashShort(str, data) == "#" \o str \o Encode(data, 1)

\* mutant: the directories stay in the arguments that are hashed
argsBasePath_keepDir(argsOrg) ==
    [i \in DOMAIN argsOrg |->
        IF argsOrg[i].hash = Placeholder THEN ExtOf(argsOrg[i]) ELSE argsOrg[i]]

argsBasePath(argsOrg) ==
    [i \in DOMAIN argsOrg |->
        IF argsOrg[i].hash = Placeholder
        THEN ExtOf(argsOrg[i])
        ELSE IF argsOrg[i].dir # ""
             THEN BasePath(argsOrg[i])
             ELSE argsOrg[i]]

RenderAll(as) == [i \in DOMAIN as |-> Render(as[i])]

replaceHash(cmdStr, argsOrig) ==
    LET h   == hashShort(cmdStr, << [list |-> TRUE, v |-> RenderAll(argsBasePath(argsOrig))] >>)
        idx == CHOOSE i \in DOMAIN argsOrig :
                  /\ argsOrig[i].hash = Placeholder
                  /\ \A j \in 1..(i - 1) : argsOrig[j].hash # Placeholder
        replaced == [argsOrig[idx] EXCEPT !.hash = h]
    IN  [args    |-> [argsOrig EXCEPT ![idx] = replaced],
         outFile |-> BasePath(replaced),
         hash    |-> h]

\* the exec functions a cmd can carry
ExecPlain == [fn |-> "execCmdCtx"]

newCmd(execCmdCtx, cmdStr, args) ==
    LET r == replaceHash(cmdStr, args)
    IN  [kind |-> "cmd", execCmdCtx |-> execCmdCtx, cmdStr |-> cmdStr,
         args |-> r.args, outFile |-> r.outFile, hash |-> r.hash]

noopNode(outFile) == [kind |-> "noop", outFile |-> outFile]
copyWavNode(src, dst) == [kind |-> "copyWav", srcWavPath |-> src, dstWavPath |-> dst]

\* the methods Hash(), Name() and outputFile() of the node types
RECURSIVE jobHash(_)
jobHash(n) ==
    CASE n.kind = "cmd"       -> n.hash
      [] n.kind = "noop"      -> hashShort(Render(n.outFile), <<>>)
      [] n.kind = "copyWav"   -> hashShort(Render(n.srcWavPath),
                                           << [list |-> FALSE, v |-> Render(n.dstWavPath)] >>)
      [] n.kind = "fileCache" -> jobHash(n.node)

RECURSIVE outputFile(_)
outputFile(n) ==
    CASE n.kind = "cmd"       -> n.outFile
      [] n.kind = "noop"      -> n.outFile
      [] n.kind = "copyWav"   -> n.dstWavPath
      [] n.kind = "fileCache" -> outputFile(n.node)

\* fileCacheBuilder
buildCmd(cmd) == [kind |-> "fileCache", node |-> cmd]
buildNoop(outFile) == [kind |-> "fileCache", node |-> noopNode(outFile)]
\* a cmd whose arguments, output file and hash are those it is given
buildSoxExtended(execFn, cmdStr, args, outFile, hash) ==
    [kind |-> "fileCache",
     node |-> [kind |-> "cmd", execCmdCtx |-> execFn, cmdStr |-> cmdStr,
               args |-> args, outFile |-> outFile, hash |-> hash]]

\* cmdBuilder: cb is [tempDir, outputDir, tts, audioFormat]
ttsCmd(cb, text) ==
    CASE cb.tts.TTSCmd = "Say" ->
            buildCmd(newCmd(ExecPlain, "say",
                << Lit("--data-format"), Lit("LEF32@22050"),
                   Lit("--voice"), Lit(cb.tts.Voice),
                   Lit("--output-file"), Join(cb.tempDir, Str("", "say-", Placeholder, ".wav")),
                   text >>))
      [] cb.tts.TTSCmd = "EspeakNG" ->
            buildCmd(newCmd(ExecPlain, "espeak-ng",
                << Lit("-v"), Lit(cb.tts.Voice),
                   Lit("-out"), Join(cb.tempDir, Str("", "espeak-ng-", Placeholder, ".wav")),
                   text >>))

\* mutant: the files are handed to sox in reverse order
soxConcat_reversed(cb, filenames) ==
    buildCmd(newCmd(ExecPlain, "sox",
        Append([i \in DOMAIN filenames |->
                   Join(cb.tempDir, filenames[Len(filenames) + 1 - i])],
               Join(cb.tempDir, Str("", "concat-", Placeholder, ".wav")))))

soxConcat(cb, filenames) ==
    buildCmd(newCmd(ExecPlain, "sox",
        Append([i \in DOMAIN filenames |-> Join(cb.tempDir, filenames[i])],
               Join(cb.tempDir, Str("", "concat-", Placeholder, ".wav")))))

soxSilence(cb, duration) ==
    buildCmd(newCmd([fn |-> "silence", duration |-> duration], "sox",
        << Lit("-n"), Lit("-r"), Lit("22050"),
           Join(cb.tempDir, Str("", "silence_" \o DurStr(duration) \o "-", Placeholder, ".wav")),
           Lit("trim"), Lit("0.0"), Lit(SecStr(duration)) >>))

\* mutant: the file is padded in place, the job writes the file it reads
soxExtendLength_inPlace(cb, inputFile, extendedLength) ==
    IF extendedLength <= 0
    THEN buildNoop(inputFile)
    ELSE LET inputFilePath == Join(cb.tempDir, inputFile)
             r == replaceHash("sox", << inputFilePath,
                                        Join(cb.tempDir, [inputFile EXCEPT !.hash = Placeholder]),
                                        Lit("pad"), Lit("0") >>)
         IN  buildSoxExtended(
                 [fn |-> "extend", inputFilePath |-> inputFilePath,
                  filePaddedPath |-> inputFilePath,
                  extendedLength |-> extendedLength],
                 "sox", [r.args EXCEPT ![2] = inputFilePath], inputFile, r.hash)

soxExtendLength(cb, inputFile, extendedLength) ==
    IF extendedLength <= 0
    THEN buildNoop(inputFile)
    ELSE LET nameNoExt  == inputFile.stem \o inputFile.hash
             filePadded == Str("", nameNoExt \o "_extended-" \o DurStr(extendedLength) \o "-",
                               Placeholder, inputFile.ext)
             inputFilePath == Join(cb.tempDir, inputFile)
             r == replaceHash("sox", << inputFilePath, Join(cb.tempDir, filePadded),
                                        Lit("pad"), Lit("0") >>)
         IN  buildSoxExtended(
                 [fn |-> "extend", inputFilePath |-> inputFilePath,
                  filePaddedPath |-> Join(cb.tempDir, r.outFile),
                  extendedLength |-> extendedLength],
                 "sox", r.args, r.outFile, r.hash)

\* cmdBuilder.convert without the cache lookup of buildConvertCmd and
\* buildCopyWav: the node for the target format, or an error
convertNode(cb, wavFile, name) ==
    CASE cb.audioFormat = "Wav" ->
            [err |-> NoErr, node |-> copyWavNode(wavFile, Str("", name, "", ".wav"))]
      [] cb.audioFormat = "M4a" ->
            [err |-> NoErr,
             node |-> newCmd(ExecPlain, "afconvert",
                << Lit("--file"), Lit("m4af"), Lit("--data"), Lit("aac"),
                   Lit("--quality"), Lit("127"), Lit("--strategy"), Lit("2"),
                   Join(cb.tempDir, wavFile),
                   Join(cb.outputDir, Str("", name \o "-", Placeholder, ".m4a")) >>)]
      [] cb.audioFormat = "Mp3" ->
            [err |-> NoErr,
             node |-> newCmd(ExecPlain, "ffmpeg",
                << Lit("-i"), Join(cb.tempDir, wavFile),
                   Lit("-ab"), Lit("256k"), Lit("-ar"), Lit("44100"), Lit("-ac"), Lit("2"),
                   Join(cb.outputDir, Str("", name \o "-", Placeholder, ".mp3")) >>)]
      [] OTHER ->
            [err |-> "unsupported audio format", node |-> noopNode(Lit(""))]

RECURSIVE JoinSpace(_, _)
JoinSpace(ss, i) ==
    IF i > Len(ss) THEN "" ELSE
    ss[i] \o (IF i < Len(ss) THEN " " ELSE "") \o JoinSpace(ss, i + 1)

RECURSIVE jobName(_)
jobName(n) ==
    CASE n.kind = "cmd"       -> n.cmdStr \o " " \o JoinSpace(RenderAll(n.args), 1)
      [] n.kind = "noop"      -> Render(n.outFile)
      [] n.kind = "copyWav"   -> JoinSpace(<<"copy", Render(n.srcWavPath), Render(n.dstWavPath)>>, 1)
      [] n.kind = "fileCache" -> jobName(n.node)

\* a job as the value of the Node interface that is handed to the Dag
NodeOf(job) == [hash |-> jobHash(job), name |-> jobName(job), run |-> job]

\* ---------------------------------------------------------------------
\* internal/audio: the file cache
\* ---------------------------------------------------------------------
\* file operations, in the order of their declaration
opErr == 0
noop == 1
created == 2
skipped == 3
copied == 4

\* In file names "@" stands for a precomposed letter (one code point) and
\* "e~" for its decomposed form (base letter and combining mark).
Composed == "@"
Decomposed == "e~"

\* the positions at which str holds the characters of sub
Occurrences(str, sub) ==
    {i \in 1..(Len(str) - Len(sub) + 1) : SubSeq(str, i, i + Len(sub) - 1) = sub}
Smallest(S) == CHOOSE i \in S : \A j \in S : i <= j

RECURSIVE ReplaceAll(_, _, _)
ReplaceAll(str, old, new) ==
    IF Occurrences(str, old) = {}
    THEN str
    ELSE LET i == Smallest(Occurrences(str, old))
         IN  SubSeq(str, 1, i - 1) \o new
             \o ReplaceAll(SubSeq(str, i + Len(old), Len(str)), old, new)

\* norm.NFC.String; the digest and the extension are ASCII: only dir and
\* stem can change
NFC(a) == [a EXCEPT !.dir = ReplaceAll(a.dir, Decomposed, Composed),
                    !.stem = ReplaceAll(a.stem, Decomposed, Composed)]
\* the decomposed form in which afconvert writes file names
NFD(a) == [a EXCEPT !.dir = ReplaceAll(a.dir, Composed, Decomposed),
                    !.stem = ReplaceAll(a.stem, Composed, Decomposed)]

HashLen == 7
\* strings.TrimSuffix(filename, filepath.Ext(filename))
TrimExt(a) == Render([a EXCEPT !.ext = ""])
\* the slice expression of extractHash is out of range: the program panics
extractHashPanics(a) == a.hash = "" /\ Len(TrimExt(a)) < HashLen
\* a digest stands for its seven characters
extractHash(a) ==
    IF a.hash # ""
    THEN a.hash
    ELSE SubSeq(TrimExt(a), Len(TrimExt(a)) - HashLen + 1, Len(TrimExt(a)))

\* directories hold plain files only; a name that begins with '.' is a
\* name without stem: it is its extension
listFilePaths(dsk, dir) ==
    {p \in dsk : p.dir = dir /\ ~(p.stem = "" /\ p.hash = "") /\ p.ext # ".m3u"}

filePaths(dsk, dir) ==
    LET files == listFilePaths(dsk, dir)
    IN  [h \in {extractHash(f) : f \in files} |-> {f \in files : extractHash(f) = h}]

\* maps.Copy: an entry of the temp directory replaces the entry of the
\* output directory that has the same hash
allFilePaths(dsk, tempDir, outputDir) == filePaths(dsk, tempDir) @@ filePaths(dsk, outputDir)

Indexed(ex) == UNION {ex[h] : h \in DOMAIN ex}

\* mutant: the copy reports success without writing the destination
copyFile_nothing(dsk, src, dst) == [err |-> src \notin dsk, disk |-> dsk]

\* copyFile(src, dst) on the files dsk
copyFile(dsk, src, dst) ==
    IF src \in dsk
    THEN [err |-> FALSE, disk |-> dsk \cup {dst}]
    ELSE [err |-> TRUE, disk |-> dsk]

Outcome(op, err, panic, dsk, src) ==
    [op |-> op, err |-> err, panic |-> panic, disk |-> dsk, src |-> src]
NoSrc == Lit("")

\* mutant: the fingerprint is looked up before the names are compared
useExistingFile_hashFirst(ex, dsk, n) ==
    LET out == outputFile(n)
    IN  IF extractHashPanics(out)
        THEN {Outcome(opErr, FALSE, TRUE, dsk, NoSrc)}
        ELSE IF extractHash(out) \in DOMAIN ex
        THEN {LET c == copyFile(dsk, p, Join(p.dir, out))
              IN  Outcome(IF c.err THEN opErr ELSE copied, c.err, FALSE, c.disk, p)
              : p \in ex[extractHash(out)]}
        ELSE IF \E p \in Indexed(ex) : NFC(BasePath(p)) = out
        THEN {Outcome(skipped, FALSE, FALSE, dsk, NoSrc)}
        ELSE {Outcome(created, FALSE, FALSE, dsk, NoSrc)}

\* the outcomes of useExistingFile(existingFiles, n); the source of a copy
\* is whichever path the iteration over the set yields first
useExistingFile(ex, dsk, n) ==
    LET out == outputFile(n)
    IN  IF \E p \in Indexed(ex) : NFC(BasePath(p)) = out
        THEN {Outcome(skipped, FALSE, FALSE, dsk, NoSrc)}
        ELSE IF extractHashPanics(out)
        THEN {Outcome(opErr, FALSE, TRUE, dsk, NoSrc)}
        ELSE IF extractHash(out) \in DOMAIN ex
        THEN {LET c == copyFile(dsk, p, Join(p.dir, out))
              IN  Outcome(IF c.err THEN opErr ELSE copied, c.err, FALSE, c.disk, p)
              : p \in ex[extractHash(out)]}
        ELSE {Outcome(created, FALSE, FALSE, dsk, NoSrc)}

\* ---------------------------------------------------------------------
\* internal/audio: running a job
\* ---------------------------------------------------------------------
\* the lengths "sox --i -D" may report for a file, in seconds
Measured == {1, 3}

RunOutcome(op, err, dsk, ps) == [op |-> op, err |-> err, disk |-> dsk, procs |-> ps]
Proc(cmdStr, args) == [cmd |-> cmdStr, args |-> args]

\* execCmdCtx(ctx, name, args...).CombinedOutput() followed by the return
\* of cmd.Run. The external tools: a tool reads the .wav files named by
\* its arguments and fails when one is missing; otherwise it writes its
\* output file. afconvert writes the name of its output in decomposed form.
execTool(c, args, dsk, before) ==
    LET inputs == {args[i] : i \in {j \in DOMAIN args :
                      args[j].dir # "" /\ args[j].ext = ".wav" /\ BasePath(args[j]) # c.outFile}}
        out    == args[CHOOSE i \in DOMAIN args : BasePath(args[i]) = c.outFile]
    IN  IF inputs \subseteq dsk
        THEN RunOutcome(created, FALSE,
                        dsk \cup {IF c.cmdStr = "afconvert" THEN NFD(out) ELSE out},
                        Append(before, Proc(c.cmdStr, args)))
        ELSE RunOutcome(opErr, TRUE, dsk, Append(before, Proc(c.cmdStr, args)))

\* cmd.Run with the exec function the cmdBuilder gave to the cmd
\* the measuring call of the function soxExtendLength passes to the cmd
Measure(x) == << Proc("sox", <<Lit("--i"), Lit("-D"), x.inputFilePath>>) >>

\* as extendRun, but nothing is copied when there is nothing to add
extendRun_noCopy(c, length, dsk) ==
    LET x == c.execCmdCtx
    IN  IF x.inputFilePath \notin dsk
        THEN RunOutcome(opErr, TRUE, dsk, Measure(x))
        ELSE IF x.extendedLength - length <= 0
        THEN RunOutcome(created, FALSE, dsk, Measure(x))
        ELSE execTool(c, Append(c.args, Lit(SecStr(x.extendedLength - length))),
                      dsk, Measure(x))

\* the function soxExtendLength passes to the cmd, followed by the return of
\* cmd.Run, when the measured length of the input is length: sox --i -D
\* fails without the input; with nothing to add the input is copied and the
\* cmdNoop makes cmd.Run return created; otherwise sox pads by the
\* difference
extendRun(c, length, dsk) ==
    LET x == c.execCmdCtx
    IN  IF x.inputFilePath \notin dsk
        THEN RunOutcome(opErr, TRUE, dsk, Measure(x))
        ELSE IF x.extendedLength - length <= 0
        THEN RunOutcome(created, FALSE,
                        copyFile(dsk, x.inputFilePath, x.filePaddedPath).disk, Measure(x))
        ELSE execTool(c, Append(c.args, Lit(SecStr(x.extendedLength - length))),
                      dsk, Measure(x))

cmdRun(c, dsk) ==
    CASE c.execCmdCtx.fn = "execCmdCtx" -> {execTool(c, c.args, dsk, <<>>)}
      [] c.execCmdCtx.fn = "silence" ->
            IF c.execCmdCtx.duration <= 0
            THEN {RunOutcome(opErr, TRUE, dsk, <<>>)}
            ELSE {execTool(c, c.args, dsk, <<>>)}
      [] c.execCmdCtx.fn = "extend" ->
            {extendRun(c, length, dsk) : length \in Measured}

\* node.Run of the node types that are not a fileCache
nodeRun(n, dsk) ==
    CASE n.kind = "cmd"     -> cmdRun(n, dsk)
      [] n.kind = "noop"    -> {RunOutcome(noop, FALSE, dsk, <<>>)}
      [] n.kind = "copyWav" ->
            LET c == copyFile(dsk, n.srcWavPath, n.dstWavPath)
            IN  {RunOutcome(IF c.err THEN opErr ELSE created, c.err, c.disk, <<>>)}

\* mutant: a job runs its tool without a look at the existing files
jobRun_noLookup(job, ex, dsk) ==
    nodeRun(IF job.kind = "fileCache" THEN job.node ELSE job, dsk)

\* the Run method of a node of the graph; a panic ends the evaluation like
\* an error
jobRun(job, ex, dsk) ==
    IF job.kind = "fileCache"
    THEN UNION {IF r.err \/ r.panic
                THEN {RunOutcome(opErr, TRUE, r.disk, <<>>)}
                ELSE IF r.op >= skipped
                     THEN {RunOutcome(r.op, FALSE, r.disk, <<>>)}
                     ELSE nodeRun(job.node, r.disk)
                : r \in useExistingFile(ex, dsk, job.node)}
    ELSE nodeRun(job, dsk)

\* runFunc of an audio job returns: the step of node.run after the call
runFuncJob(t) ==
    LET n == tasks[t].node
    IN  /\ tasks[t].pc = "runFunc"
        /\ \E r \in jobRun(d.nodes[n].runFunc, existing, disk) :
              /\ disk' = r.disk
              /\ procs' = procs \o r.procs
              /\ IF r.err
                 THEN /\ tasks' = Return(t, Zero, n)
                      /\ UNCHANGED <<result, runFuncExecuted, returned>>
                 ELSE /\ result' = [result EXCEPT ![n] = r.op]
                      /\ runFuncExecuted' = [runFuncExecuted EXCEPT ![n] = TRUE]
                      /\ returned' = [returned EXCEPT ![n] = Append(@, r.op)]
                      /\ tasks' = Return(t, r.op, Nil)
        /\ lock' = [lock EXCEPT ![n] = Free]
        /\ UNCHANGED <<graphVars, roots, rootsErr, cancelled, calls, streamVars,
                       built, lookup, plan, fc, existing, hist>>

\* ---------------------------------------------------------------------
\* internal/audio: from segments to jobs
\* ---------------------------------------------------------------------
Silence(length) == [type |-> "Silence", length |-> length]
Sound(filename, length) == [type |-> "Sound", value |-> filename, length |-> length]
Text(value, length) == [type |-> "Text", value |-> value, length |-> length]
Group(segments, length) == [type |-> "Group", values |-> segments, length |-> length]

NilJob == noopNode(Lit(""))
Built(g, job) == [d |-> g, job |-> job, err |-> NoErr]
NotBuilt(g, err) == [d |-> g, job |-> NilJob, err |-> err]

\* binds the value of an expression to the parameter of F
With(x, F(_)) == F(x)

textToWav(g, cb, t) ==
    IF t.value = Lit("")
    THEN IF t.length > 0
         THEN Built(g, soxSilence(cb, t.length))
         ELSE NotBuilt(g, "text is empty and length is zero")
    ELSE With(ttsCmd(cb, t.value), LAMBDA tts :
         IF t.length > 0
         THEN With(soxExtendLength(cb, outputFile(tts), t.length), LAMBDA extLenCmd :
              With(AddEdge(g, NodeOf(extLenCmd), NodeOf(tts)), LAMBDA e :
              IF e.err # NoErr THEN NotBuilt(e.d, e.err) ELSE Built(e.d, extLenCmd)))
         ELSE Built(g, tts))

RECURSIVE toWav(_, _, _)
RECURSIVE toWavEach(_, _, _, _, _)
RECURSIVE toWavConcatenated(_, _, _)

\* the first loop of toWavConcatenated
toWavEach(g, cb, segments, i, cmdWavs) ==
    IF i > Len(segments)
    THEN [d |-> g, jobs |-> cmdWavs, err |-> NoErr]
    ELSE With(toWav(g, cb, segments[i]), LAMBDA r :
         IF r.err # NoErr
         THEN [d |-> r.d, jobs |-> cmdWavs, err |-> r.err]
         ELSE toWavEach(r.d, cb, segments, i + 1, Append(cmdWavs, r.job)))

toWavConcatenated(g, cb, segments) ==
    IF Len(segments) = 1
    THEN toWav(g, cb, segments[1])
    ELSE With(toWavEach(g, cb, segments, 1, <<>>), LAMBDA r :
         IF r.err # NoErr
         THEN NotBuilt(r.d, r.err)
         ELSE With(soxConcat(cb, [i \in DOMAIN r.jobs |-> outputFile(r.jobs[i])]),
              LAMBDA concatCmd :
              With(AddEdgesFrom(r.d, [i \in DOMAIN r.jobs |->
                                        <<NodeOf(concatCmd), NodeOf(r.jobs[i])>>], 1),
              LAMBDA e :
              IF e.err # NoErr THEN NotBuilt(e.d, e.err) ELSE Built(e.d, concatCmd))))

toWav(g, cb, s) ==
    CASE s.type = "Sound"   -> Built(g, soxExtendLength(cb, s.value, s.length))
      [] s.type = "Text"    -> textToWav(g, cb, s)
      [] s.type = "Silence" -> Built(g, soxSilence(cb, s.length))
      [] s.type = "Group"   ->
            IF Len(s.values) = 0
            THEN Built(g, soxSilence(cb, s.length))
            ELSE With(toWavConcatenated(g, cb, s.values), LAMBDA c :
                 IF c.err # NoErr
                 THEN c
                 ELSE With(soxExtendLength(cb, outputFile(c.job), s.length),
                      LAMBDA extLenCmd :
                      IF s.length = 0
                      THEN Built(c.d, extLenCmd)
                      ELSE With(AddEdge(c.d, NodeOf(extLenCmd), NodeOf(c.job)), LAMBDA e :
                           IF e.err # NoErr
                           THEN NotBuilt(e.d, e.err)
                           ELSE Built(e.d, extLenCmd))))
      [] OTHER -> NotBuilt(g, "unknown Segment type")

Converted(g, dsk, op, job, err) == [d |-> g, disk |-> dsk, op |-> op, job |-> job, err |-> err]

\* the outcomes of textToAudioFile: the convert job is looked up in the
\* cache when it is built (buildConvertCmd, buildCopyWav)
textToAudioFile(g, cb, ex, dsk, segments, name) ==
    UNION {
        IF c.err # NoErr
        THEN {Converted(c.d, dsk, opErr, NilJob, c.err)}
        ELSE UNION {
            IF v.err # NoErr
            THEN {Converted(c.d, dsk, opErr, NilJob, v.err)}
            ELSE {IF r.panic
                  THEN Converted(c.d, r.disk, opErr, NilJob, "panic")
                  ELSE IF r.err
                  THEN Converted(c.d, r.disk, opErr, NilJob, "copy failed")
                  ELSE IF r.op >= skipped
                  THEN Converted(c.d, r.disk, r.op, v.node, NoErr)
                  ELSE With(AddEdge(c.d, NodeOf(v.node), NodeOf(c.job)), LAMBDA e :
                       IF e.err # NoErr
                       THEN Converted(e.d, r.disk, opErr, NilJob, e.err)
                       ELSE Converted(e.d, r.disk, r.op, v.node, NoErr))
                  : r \in useExistingFile(ex, dsk, v.node)}
            : v \in {convertNode(cb, outputFile(c.job), name)}}
        : c \in {toWavConcatenated(g, cb, segments)}}

\* the speech tools and the state of a cmdBuilder
TTSSay == [TTSCmd |-> "Say", Voice |-> "Anna"]
TTSEspeak == [TTSCmd |-> "EspeakNG", Voice |-> "en"]
CmdBuilder(tempDir, outputDir, tts, audioFormat) ==
    [tempDir |-> tempDir, outputDir |-> outputDir, tts |-> tts, audioFormat |-> audioFormat]

NoLookup == [called |-> FALSE]
NoPlan == [format |-> "", tts |-> TTSSay, files |-> <<>>]
NoFc == [pc |-> "idle"]

\* no engine run: the state of the audio variables in the specifications
\* of the graph alone
AudioIdle ==
    /\ built = <<>>
    /\ lookup = NoLookup
    /\ plan = NoPlan
    /\ fc = NoFc
    /\ disk = {}
    /\ existing = <<>>
    /\ procs = <<>>
    /\ hist = <<>>

\* ---------------------------------------------------------------------
\* Specifications
\* ---------------------------------------------------------------------
NoCons == [pc |-> "returned", i |-> 1, awake |-> FALSE, val |-> Zero, err |-> Nil]

\* no run in progress: the state of the run variables while a graph is built
RunIdle ==
    /\ roots = <<>>
    /\ rootsErr = NoErr
    /\ tasks = <<>>
    /\ cancelled = FALSE
    /\ lock = <<>>
    /\ runFuncExecuted = <<>>
    /\ result = <<>>
    /\ calls = <<>>
    /\ returned = <<>>
    /\ done = <<>>
    /\ results = <<>>
    /\ errs = <<>>
    /\ cons = NoCons
    /\ order = <<>>
    /\ yielded = <<>>

GraphInit ==
    /\ d = New
    /\ gop = NoOp
    /\ RunIdle
    /\ AudioIdle

RECURSIVE InOrder(_, _, _)
\* Hashes are opaque and so are the Node objects: the calls are enumerated up
\* to renaming. A hash the graph has not seen is the next unused number, and
\* the first object inserted for a hash is the one named "first".
InOrder(ns, i, seen) ==
    IF i > Len(ns)
    THEN TRUE
    ELSE IF ns[i].hash <= seen
         THEN InOrder(ns, i + 1, seen)
         ELSE IF ns[i].hash = seen + 1 /\ ns[i].name = "first"
              THEN InOrder(ns, i + 1, seen + 1)
              ELSE FALSE

Flat(es) == [i \in 1..(2 * Len(es)) |-> es[(i + 1) \div 2][2 - (i % 2)]]

GraphNext ==
    \/ \E p, c \in NodeObjs :
          InOrder(<<p, c>>, 1, Len(d.nodes)) /\ DoAddEdge(p, c)
    \/ \E ns \in UNION {[1..k -> FirstObjs] : k \in 1..MaxChain} :
          InOrder(ns, 1, Len(d.nodes)) /\ DoAddChain(ns)
    \* AddEdges is called with one edge or with two
    \/ \E es \in {<<e>> : e \in FirstObjs \X FirstObjs}
                 \cup {<<e, f>> : e \in FirstObjs \X FirstObjs, f \in FirstObjs \X FirstObjs} :
          InOrder(Flat(es), 1, Len(d.nodes)) /\ DoAddEdges(es)

\* any sequence of graph-construction calls on a new Dag
SpecGraph == GraphInit /\ [][GraphNext]_vars

\* the graphs that are run, each built by AddChain calls on a new Dag
N(h) == [hash |-> h, name |-> "first", run |-> "first"]
RECURSIVE Build(_, _, _)
Build(g, chains, i) ==
    IF i > Len(chains) THEN g ELSE Build(AddChain(g, chains[i]).d, chains, i + 1)

\* k roots that share one leaf
Fan(k) == Build(New, [i \in 1..k |-> <<N(i), N(k + 1)>>], 1)

\* a single node, a chain, a diamond, two trees, a tree beside a node
\* without edges, and the fans
RunGraphs ==
    { Build(New, << <<N(1)>> >>, 1),
      Build(New, << <<N(1), N(2), N(3)>> >>, 1),
      Build(New, << <<N(1), N(2), N(4)>>, <<N(1), N(3), N(4)>> >>, 1),
      Build(New, << <<N(1), N(2)>>, <<N(3), N(4)>> >>, 1),
      Build(New, << <<N(1), N(2)>>, <<N(3)>> >>, 1) }
    \cup {Fan(k) : k \in 1..FanIn}

RunInit ==
    /\ gop = NoOp
    /\ cancelled = FALSE
    /\ order = <<>>
    /\ yielded = <<>>
    /\ AudioIdle
    \* the calls of RunRootNodes and RunNodes that are explored
    /\ \E c \in {[g |-> g, call |-> RunRootNodes(g)] : g \in RunGraphs}
               \cup {[g |-> Fan(FanIn), call |-> RunNodes(Fan(FanIn), ns)]
                     : ns \in {<<N(1), N(1)>>, <<N(2), N(0)>>, <<N(FanIn + 1), N(1)>>}} :
          /\ d = c.g
          /\ roots = c.call.roots
          /\ rootsErr = c.call.err
          /\ cons = [NoCons EXCEPT !.pc = IF c.call.err # NoErr THEN "rootsErr" ELSE "head"]
    /\ lock = [n \in Ids(d) |-> Free]
    /\ runFuncExecuted = [n \in Ids(d) |-> FALSE]
    /\ result = [n \in Ids(d) |-> Zero]
    /\ calls = [n \in Ids(d) |-> 0]
    /\ returned = [n \in Ids(d) |-> <<>>]
    /\ tasks = [t \in {<<i>> : i \in DOMAIN roots} |-> NewTask(roots[t[1]])]
    /\ done = [i \in DOMAIN roots |-> FALSE]
    /\ results = [i \in DOMAIN roots |-> Zero]
    /\ errs = [i \in DOMAIN roots |-> Nil]

RunNext ==
    \/ \E t \in DOMAIN tasks : runEnter(t)
    \/ \E t \in DOMAIN tasks : runChildrenReturn(t)
    \/ \E t \in DOMAIN tasks, v \in Vals : runFuncOk(t, v)
    \/ \E t \in DOMAIN tasks : runFuncErr(t)
    \/ \E i \in DOMAIN roots : rootDone(i)
    \/ consLock
    \/ consPoll
    \/ consWake
    \/ consYield
    \/ consNext
    \/ consRootsErr
    \/ cancel

\* one call of RunRootNodes or RunNodes, iterated to its end
SpecRun == RunInit /\ [][RunNext]_vars

Spec == SpecRun

\* a step of a goroutine that evaluates a node
TaskStep ==
    \/ \E t \in DOMAIN tasks : runEnter(t)
    \/ \E t \in DOMAIN tasks : runChildrenReturn(t)
    \/ \E t \in DOMAIN tasks, v \in Vals : runFuncOk(t, v)
    \/ \E t \in DOMAIN tasks : runFuncErr(t)

\* the same run under the scheduler of the runtime: a goroutine that can
\* take a step takes one, and every run function returns
SpecRunFair == RunInit /\ [][RunNext]_vars /\ WF_vars(TaskStep)

\* ---------------------------------------------------------------------
\* Specification of the cmdBuilder: jobs are built from bounded inputs
\* ---------------------------------------------------------------------
\* how many builder calls one behaviour makes
MaxBuilt == 2
\* requested lengths are 0..MaxDur seconds
MaxDur == 2

\* the embedded sound that the engine plays at the end
SuccessWav == Str("", "success-", "a1a69bc", ".wav")

\* the calls of the cmdBuilder that are explored: two choices of the
\* directories, an embedded and a spoken input file, three texts
JobSpecs ==
    LET DirPairs  == {<<"tmpdir", "outdir">>, <<"cache/w2a", "music">>}
        SpokenWav == outputFile(ttsCmd(CmdBuilder("tmpdir", "outdir", TTSSay, "Mp3"), Lit("hello")))
        Texts     == {Lit("hello"), Str("a", "b", "", ""), Str("c", "b", "", ""),
                      Str("", "say ", Placeholder, ""), Str("", "tell ", Placeholder, "")}
        JobSpec(kind, dirs, tts, format, file, name, length) ==
            [kind |-> kind, cb |-> CmdBuilder(dirs[1], dirs[2], tts, format),
             file |-> file, name |-> name, length |-> length]
    IN  {JobSpec("soxExtendLength", ds, TTSSay, "Mp3", f, "", n)
            : ds \in DirPairs, f \in {SuccessWav, SpokenWav}, n \in 0..MaxDur}
        \cup {JobSpec("soxSilence", ds, TTSSay, "Mp3", Lit(""), "", n)
            : ds \in DirPairs, n \in 1..MaxDur}
        \cup {JobSpec("ttsCmd", ds, tts, "Mp3", txt, "", 0)
            : ds \in DirPairs, tts \in {TTSSay, TTSEspeak}, txt \in Texts}
        \cup {JobSpec("soxConcat", ds, TTSSay, "Mp3", f, "", 0)
            : ds \in DirPairs, f \in {SuccessWav, SpokenWav}}
        \cup {JobSpec("convert", ds, TTSSay, fmt, SpokenWav, nm, 0)
            : ds \in DirPairs, fmt \in {"Mp3", "M4a", "Wav"}, nm \in {"01-intro", "02-intro"}}

\* the call of the cmdBuilder that a spec stands for
BuildSpec(s) ==
    CASE s.kind = "soxExtendLength" -> soxExtendLength(s.cb, s.file, s.length)
      [] s.kind = "soxSilence"      -> soxSilence(s.cb, s.length)
      [] s.kind = "ttsCmd"          -> ttsCmd(s.cb, s.file)
      [] s.kind = "soxConcat"       -> soxConcat(s.cb, <<SuccessWav, s.file>>)
      [] s.kind = "convert"         -> convertNode(s.cb, s.file, s.name).node

BuildJob(s) ==
    /\ Len(built) < MaxBuilt
    /\ built' = Append(built, [spec |-> s, job |-> BuildSpec(s)])
    /\ UNCHANGED <<graphVars, runVars, lookup, plan, fc, disk, existing, procs, hist>>

SpecHash == GraphInit /\ [][\E s \in JobSpecs : BuildJob(s)]_vars

\* ---------------------------------------------------------------------
\* Specification of the cache lookup: an index taken from some files and
\* a sequence of lookups
\* ---------------------------------------------------------------------
\* at most MaxFiles files are in the two directories when they are indexed
MaxFiles == 3

LookupFiles ==
    { Str("outdir", "my-file-", "03bdd2e", ".mp3"),
      Str("outdir", "other-", "03bdd2e", ".mp3"),
      Str("tmpdir", "my-file-", "03bdd2e", ".wav"),
      Str("outdir", "caf" \o Decomposed \o "-", "92ed2b7", ".m4a"),
      Str("outdir", "notes", "", ".txt"),
      Str("outdir", "", "", ".DS_Store"),
      Str("outdir", "playlist", "", ".m3u") }

\* the desired output files; the stem of the last one is shorter than a hash
Desired ==
    { Str("", "my-file-", "03bdd2e", ".mp3"),
      Str("", "new-", "03bdd2e", ".mp3"),
      Str("", "caf" \o Composed \o "-", "92ed2b7", ".m4a"),
      Str("", "caf" \o Decomposed \o "-", "92ed2b7", ".m4a"),
      Str("", "fresh-", "7c0ffee", ".mp3"),
      Str("", "r/notes", "", ".wav"),
      Str("", "01", "", ".wav") }

LookupInit ==
    /\ d = New
    /\ gop = NoOp
    /\ RunIdle
    /\ built = <<>>
    /\ lookup = NoLookup
    /\ plan = NoPlan
    /\ fc = NoFc
    /\ procs = <<>>
    /\ hist = <<>>
    /\ disk \in {fs \in SUBSET LookupFiles : Cardinality(fs) <= MaxFiles}
    /\ existing = allFilePaths(disk, "tmpdir", "outdir")

DoLookup(out) ==
    /\ \E r \in useExistingFile(existing, disk, noopNode(out)) :
          /\ lookup' = [called |-> TRUE, desired |-> out, op |-> r.op, err |-> r.err,
                        panic |-> r.panic, src |-> r.src, before |-> disk]
          /\ disk' = r.disk
    /\ UNCHANGED <<graphVars, runVars, built, plan, fc, existing, procs, hist>>

SpecLookup == LookupInit /\ [][\E out \in Desired : DoLookup(out)]_vars

\* ---------------------------------------------------------------------
\* internal/m3u: the playlist
\* ---------------------------------------------------------------------
\* A path of a playlist item is a sequence of code points: '/', 'a', '%',
\* u with diaeresis (U+00FC), the combining diaeresis (U+0308) and the euro
\* sign (U+20AC).
MaxPath == 3
Paths == UNION {[1..n -> {47, 97, 37, 252, 776, 8364}] : n \in 1..MaxPath}

RECURSIVE Flatten(_, _)
\* the concatenation of the sequences ss[i], ss[i+1], ...
Flatten(ss, i) == IF i > Len(ss) THEN <<>> ELSE ss[i] \o Flatten(ss, i + 1)

\* norm.NFD.String on code points: the precomposed letter is written as its
\* base letter followed by the combining mark
Decompose(cs) == Flatten([i \in DOMAIN cs |-> IF cs[i] = 252 THEN <<117, 776>> ELSE <<cs[i]>>], 1)

\* []byte(s): the UTF-8 encoding of the code points
UTF8(cs) ==
    Flatten([i \in DOMAIN cs |->
                IF cs[i] < 128 THEN <<cs[i]>>
                ELSE IF cs[i] < 2048
                THEN <<192 + (cs[i] \div 64), 128 + (cs[i] % 64)>>
                ELSE <<224 + (cs[i] \div 4096), 128 + ((cs[i] \div 64) % 64),
                       128 + (cs[i] % 64)>>], 1)

\* one digit of %02X
HexDigit(n) == IF n < 10 THEN 48 + n ELSE 55 + n

\* mutant: only the bytes above 127 are written as %XX
escape_highOnly(input) ==
    LET bs == UTF8(Decompose(input))
    IN  Flatten([i \in DOMAIN bs |->
                    IF bs[i] > 127
                    THEN <<37, HexDigit(bs[i] \div 16), HexDigit(bs[i] % 16)>>
                    ELSE <<bs[i]>>], 1)

\* escape(input): the bytes of the result
escape(input) ==
    LET bs == UTF8(Decompose(input))
    IN  Flatten([i \in DOMAIN bs |->
                    IF bs[i] > 127 \/ bs[i] = 37
                    THEN <<37, HexDigit(bs[i] \div 16), HexDigit(bs[i] % 16)>>
                    ELSE <<bs[i]>>], 1)

\* a playlist of one item, before Write; the duration is in milliseconds
PlaylistInit ==
    /\ d = New
    /\ gop = NoOp
    /\ RunIdle
    /\ built = <<>>
    /\ lookup = NoLookup
    /\ plan = NoPlan
    /\ disk = {}
    /\ existing = <<>>
    /\ procs = <<>>
    /\ hist = <<>>
    /\ \E path \in Paths, dur \in {1000, 9999} :
          fc = [pc |-> "m3u", playlist |-> << [absFilePath |-> path, dur |-> dur] >>,
                written |-> FALSE, text |-> <<>>]

\* Playlist.Write: for every item the seconds of #EXTINF and the bytes
\* behind "file://"
PlaylistWrite ==
    /\ fc.pc = "m3u"
    /\ ~fc.written
    /\ fc' = [fc EXCEPT
                !.written = TRUE,
                !.text = [i \in DOMAIN fc.playlist |->
                            [extinf |-> (fc.playlist[i].dur \div 10) \div 100,
                             url |-> escape(fc.playlist[i].absFilePath)]]]
    /\ UNCHANGED <<graphVars, runVars, built, lookup, plan, disk, existing, procs, hist>>

\* Playlist.Write on a playlist of one item
SpecPlaylist == PlaylistInit /\ [][PlaylistWrite]_vars

\* ---------------------------------------------------------------------
\* Specification of the engine: NewFileCreator, BatchCreate and
\* RemoveOtherFiles on a plan, run MaxRuns times on the same directories
\* ---------------------------------------------------------------------
MaxRuns == 2

TempDir == "tmpdir"
OutputDir == "outdir"
\* the working directory of the process
Cwd == "/work"

\* mutant: the path is left as it is
Abs_asGiven(path) == path

\* filepath.Abs(path): a relative path is joined to the working directory
Abs(path) ==
    IF path.dir # "" /\ SubSeq(path.dir, 1, 1) = "/"
    THEN path
    ELSE [path EXCEPT !.dir = IF @ = "" THEN Cwd ELSE Cwd \o "/" \o @]

File(name, segments) == [Name |-> name, Segments |-> segments]
Plan(format, files) == [format |-> format, tts |-> TTSSay, files |-> files]
Hello == Lit("hello")

\* the plans that are run
Plans ==
    { \* one track, one second of silence (TestFileCreator_BatchCreate)
      Plan("Mp3", << File("my-file", <<Silence(1)>>) >>),
      \* two tracks with the same content under different names
      Plan("Mp3", << File("01-intro", <<Text(Hello, 0)>>),
                     File("02-intro", <<Text(Hello, 0)>>) >>),
      \* two tracks that share a spoken text; the first name has an accent
      Plan("M4a", << File("caf" \o Composed, <<Text(Hello, 0)>>),
                     File("02-intro", <<Text(Hello, 0), Silence(1)>>) >>),
      \* a spoken text extended to a requested length
      Plan("Mp3", << File("01-intro", <<Text(Hello, MaxDur)>>) >>),
      \* a group without requested length, followed by a sound
      Plan("Mp3", << File("01-intro", <<Group(<<Text(Hello, 0)>>, 0),
                                        Sound(SuccessWav, 0)>>) >>),
      \* the target format is wav
      Plan("Wav", << File("my-file", <<Silence(1)>>) >>),
      \* a silence without length
      Plan("Mp3", << File("01-intro", <<Silence(0)>>) >>),
      \* a text without words and without length after a track that is built
      Plan("Mp3", << File("01-intro", <<Silence(1)>>),
                     File("02-intro", <<Text(Lit(""), 0)>>) >>),
      \* a text without words that has a length
      Plan("Mp3", << File("01-intro", <<Text(Lit(""), 1)>>) >>),
      \* a group without segments and without length
      Plan("Mp3", << File("01-intro", <<Group(<<>>, 0)>>) >>),
      \* a silence without length inside a group without length
      Plan("Mp3", << File("01-intro", <<Group(<<Silence(0)>>, 0)>>) >>) }

\* what the directories hold before the first run: nothing, a file that is
\* no artifact, the terminal of the first plan under another name, or a
\* file that is no artifact beside a dot file and a playlist of another name
InitialDisks ==
    LET cb == CmdBuilder(TempDir, OutputDir, TTSSay, "Mp3")
        t  == outputFile(convertNode(cb, outputFile(soxSilence(cb, 1)), "my-file").node)
        \* the spoken text extended to one second, left by an earlier run
        e  == outputFile(soxExtendLength(cb, outputFile(ttsCmd(cb, Hello)), 1))
    IN  { {},
          {Str(TempDir, e.stem, e.hash, e.ext)},
          {Str(OutputDir, "notes", "", ".txt")},
          {Str(OutputDir, "old-", t.hash, t.ext)},
          {Str(OutputDir, "notes", "", ".txt"), Str(OutputDir, "", "", ".DS_Store"),
           Str(OutputDir, "old", "", ".m3u")} }

Cb == CmdBuilder(TempDir, OutputDir, plan.tts, plan.format)

NewFc(run) ==
    [pc |-> "created", run |-> run, i |-> 1, nodesToRun |-> <<>>, paths |-> <<>>,
     keep |-> {}, playlist |-> <<>>, written |-> FALSE, logs |-> <<>>, err |-> NoErr]

Summary(err, logs, ps, dsk) == [err |-> err, logs |-> logs, procs |-> ps, disk |-> dsk]

BatchInit ==
    /\ d = New
    /\ gop = NoOp
    /\ RunIdle
    /\ built = <<>>
    /\ lookup = NoLookup
    /\ plan \in Plans
    /\ disk \in InitialDisks
    /\ existing = <<>>
    /\ procs = <<>>
    /\ hist = <<>>
    /\ fc = [NewFc(0) EXCEPT !.pc = "new"]

\* a new process: the directories are indexed after the sounds are written
NewFileCreator ==
    /\ fc.pc \in {"new", "end", "failed"}
    /\ fc.run < MaxRuns
    /\ disk' = disk \cup {Join(TempDir, SuccessWav)}
    /\ existing' = allFilePaths(disk', TempDir, OutputDir)
    /\ d' = New
    /\ roots' = <<>>
    /\ rootsErr' = NoErr
    /\ tasks' = <<>>
    /\ cancelled' = FALSE
    /\ lock' = <<>>
    /\ runFuncExecuted' = <<>>
    /\ result' = <<>>
    /\ calls' = <<>>
    /\ returned' = <<>>
    /\ done' = <<>>
    /\ results' = <<>>
    /\ errs' = <<>>
    /\ cons' = NoCons
    /\ order' = <<>>
    /\ yielded' = <<>>
    /\ procs' = <<>>
    /\ fc' = NewFc(fc.run + 1)
    /\ UNCHANGED <<gop, built, lookup, plan, hist>>

\* BatchCreate up to its loop over the files
BatchCreateBegin ==
    /\ fc.pc = "created"
    /\ disk' = disk \cup {Str(OutputDir, "playlist", "", ".m3u")}
    /\ fc' = [fc EXCEPT !.pc = "build", !.keep = @ \cup {Str(OutputDir, "playlist", "", ".m3u")}]
    /\ UNCHANGED <<graphVars, runVars, built, lookup, plan, existing, procs, hist>>

\* one iteration of the loop of BatchCreate over the files
BatchCreateFile ==
    /\ fc.pc = "build"
    /\ fc.i <= Len(plan.files)
    /\ \E r \in textToAudioFile(d, Cb, existing, disk,
                                plan.files[fc.i].Segments, plan.files[fc.i].Name) :
          LET path == Join(OutputDir, outputFile(r.job))
          IN  /\ d' = r.d
              /\ disk' = r.disk
              /\ IF r.err # NoErr
                 THEN /\ fc' = [fc EXCEPT !.pc = "failed", !.err = r.err]
                      /\ hist' = Append(hist, Summary(r.err, fc.logs, procs, r.disk))
                 ELSE /\ fc' = [fc EXCEPT
                            !.i = @ + 1,
                            !.keep = @ \cup {path},
                            !.playlist = Append(@, Abs(path)),
                            !.logs = IF r.op >= skipped
                                     THEN Append(@, [op |-> r.op, path |-> path]) ELSE @,
                            !.nodesToRun = IF r.op >= skipped THEN @ ELSE Append(@, NodeOf(r.job)),
                            !.paths = IF r.op >= skipped THEN @ ELSE Append(@, path)]
                      /\ UNCHANGED hist
    /\ UNCHANGED <<gop, runVars, built, lookup, plan, existing, procs>>

\* BatchCreate calls RunNodes and starts to range over the sequence
BatchRunNodes ==
    /\ fc.pc = "build"
    /\ fc.i > Len(plan.files)
    /\ roots' = RunNodes(d, fc.nodesToRun).roots
    /\ rootsErr' = NoErr
    /\ cancelled' = FALSE
    /\ cons' = [NoCons EXCEPT !.pc = "head"]
    /\ lock' = [n \in Ids(d) |-> Free]
    /\ runFuncExecuted' = [n \in Ids(d) |-> FALSE]
    /\ result' = [n \in Ids(d) |-> Zero]
    /\ calls' = [n \in Ids(d) |-> 0]
    /\ returned' = [n \in Ids(d) |-> <<>>]
    /\ tasks' = [t \in {<<i>> : i \in DOMAIN roots'} |-> NewTask(roots'[t[1]])]
    /\ done' = [i \in DOMAIN roots' |-> FALSE]
    /\ results' = [i \in DOMAIN roots' |-> Zero]
    /\ errs' = [i \in DOMAIN roots' |-> Nil]
    /\ order' = <<>>
    /\ yielded' = <<>>
    /\ fc' = [fc EXCEPT !.pc = "run"]
    /\ UNCHANGED <<graphVars, built, lookup, plan, disk, existing, procs, hist>>

\* the consumer calls yield: the body of the range loop of BatchCreate
BatchYield ==
    /\ fc.pc = "run"
    /\ cons.pc = "yield"
    /\ yielded' = Append(yielded, [idx |-> cons.i, val |-> cons.val, err |-> cons.err])
    /\ cons' = [cons EXCEPT !.pc = "yielded"]
    /\ fc' = IF cons.err # Nil
             THEN [fc EXCEPT !.err = "run failed"]
             ELSE [fc EXCEPT !.logs = Append(@, [op |-> cons.val, path |-> fc.paths[cons.i]])]
    /\ UNCHANGED <<graphVars, roots, rootsErr, tasks, cancelled, nodeVars,
                   done, results, errs, order, built, lookup, plan, disk, existing,
                   procs, hist>>

\* mutant: the error of the range loop is dropped and the run goes on
BatchCreateEnd_ignoreErr ==
    /\ fc.pc = "run"
    /\ cons.pc = "returned"
    /\ fc' = [fc EXCEPT !.pc = "prune", !.written = fc.err = NoErr]
    /\ UNCHANGED <<graphVars, runVars, built, lookup, plan, disk, existing, procs, hist>>

\* the range loop has ended: BatchCreate returns the error or writes the
\* playlist
BatchCreateEnd ==
    /\ fc.pc = "run"
    /\ cons.pc = "returned"
    /\ IF fc.err # NoErr
       THEN /\ fc' = [fc EXCEPT !.pc = "failed"]
            /\ hist' = Append(hist, Summary(fc.err, fc.logs, procs, disk))
       ELSE /\ fc' = [fc EXCEPT !.pc = "prune", !.written = TRUE]
            /\ UNCHANGED hist
    /\ UNCHANGED <<graphVars, runVars, built, lookup, plan, disk, existing, procs>>

\* mutant: the names are compared as they are on the disk
removeOtherFiles_raw(dsk, dir, excludedFiles) ==
    dsk \ {p \in listFilePaths(dsk, dir) : p \notin excludedFiles}

\* the files left by removeOtherFiles(dir, excludedFiles)
removeOtherFiles(dsk, dir, excludedFiles) ==
    dsk \ {p \in listFilePaths(dsk, dir) : NFC(p) \notin excludedFiles}

\* the engine ends its run with RemoveOtherFiles
RemoveOtherFiles ==
    /\ fc.pc = "prune"
    /\ disk' = removeOtherFiles(disk, OutputDir, fc.keep)
    /\ fc' = [fc EXCEPT !.pc = "end"]
    /\ hist' = Append(hist, Summary(NoErr, fc.logs, procs, disk'))
    /\ UNCHANGED <<graphVars, runVars, built, lookup, plan, existing, procs>>

BatchNext ==
    \/ NewFileCreator
    \/ BatchCreateBegin
    \/ BatchCreateFile
    \/ BatchRunNodes
    \/ \E t \in DOMAIN tasks : runEnter(t)
    \/ \E t \in DOMAIN tasks : runChildrenReturn(t)
    \/ \E t \in DOMAIN tasks : runFuncJob(t)
    \/ \E i \in DOMAIN roots : rootDone(i)
    \/ consLock
    \/ consPoll
    \/ consWake
    \/ BatchYield
    \/ consNext
    \/ BatchCreateEnd
    \/ RemoveOtherFiles

SpecBatch == BatchInit /\ [][BatchNext]_vars

\* ---------------------------------------------------------------------
\* Properties of the dependency graph
\* ---------------------------------------------------------------------
RECURSIVE ReachFrom(_, _)
\* the nodes reachable from the set S along child edges, S included
ReachFrom(g, S) ==
    LET S2 == S \cup UNION {ChildSet(g, n) : n \in S}
    IN  IF S2 = S THEN S ELSE ReachFrom(g, S2)

\* the proper descendants of node n
Desc(g, n) == ReachFrom(g, ChildSet(g, n))
Acyclic(g) == \A n \in Ids(g) : n \notin Desc(g, n)
EdgeSet(g) == UNION {{<<n, c>> : c \in ChildSet(g, n)} : n \in Ids(g)}
TaskNode(t) == tasks[t].node
RunFuncErrs == \E t \in DOMAIN tasks : tasks[t].err # Nil

\* C1: across one run of RunRootNodes or RunNodes the run function of every
\* node is invoked at most once.
C1_SingleExec == \A n \in DOMAIN calls : calls[n] <= 1

\* C2: when no run function fails and the context is not cancelled, the
\* iteration ends and has yielded one (result, nil) pair per root: once every
\* root goroutine has published its outcome the consumer is not left asleep
\* on the condition variable, and when it has returned nothing is missing.
C2_StreamComplete ==
    (rootsErr = NoErr /\ ~cancelled /\ ~RunFuncErrs) =>
        /\ (\A i \in DOMAIN roots : done[i]) => (cons.pc # "waiting" \/ cons.awake)
        /\ cons.pc = "returned" =>
              /\ Len(yielded) = Len(roots)
              /\ \A k \in DOMAIN yielded : yielded[k].err = Nil

\* C3: the k-th pair yielded by runNodes is the outcome of the k-th root,
\* whatever the order in which the roots finished.
C3_OrderPreserved ==
    rootsErr = NoErr =>
        \A k \in DOMAIN yielded :
            /\ yielded[k].idx = k
            /\ tasks[<<k>>].pc = "done"
            /\ yielded[k].val = tasks[<<k>>].val
            /\ yielded[k].err = tasks[<<k>>].err

\* a later root finished before an earlier one and both outcomes were yielded
C3_Witness ==
    /\ Len(yielded) >= 2
    /\ \E a, b \in DOMAIN order : a < b /\ order[a] > order[b] /\ order[a] <= Len(yielded)
    /\ yielded[1].val # yielded[2].val

\* the path from the child to the parent that AddEdge looks for, read off
\* the graph before the call
PathBefore(g, parent, child) ==
    \/ parent.hash = child.hash
    \/ /\ parent.hash \in DOMAIN g.hashToIdx
       /\ child.hash \in DOMAIN g.hashToIdx
       /\ g.hashToIdx[parent.hash] \in Desc(g, g.hashToIdx[child.hash])

C4_AddEdgeStep ==
    gop'.op = "AddEdge" =>
        LET parent == gop'.args[1]
            child  == gop'.args[2]
        IN  IF PathBefore(d, parent, child)
            THEN gop'.err = ErrCyclic /\ EdgeSet(d') = EdgeSet(d)
            ELSE /\ gop'.err = NoErr
                 /\ EdgeSet(d') = EdgeSet(d) \cup
                        {<<d'.hashToIdx[parent.hash], d'.hashToIdx[child.hash]>>}

\* C4: the edge relation stays acyclic under every sequence of AddEdge,
\* AddEdges and AddChain calls; AddEdge(P, C) fails with a cyclic-dependency
\* error and adds no edge exactly when a path from C to P exists (P and C of
\* equal hash included), so AddEdge(B, A) fails after AddEdge(A, B).
C4_Acyclicity == [](Acyclic(d)) /\ [][C4_AddEdgeStep]_vars

\* AddEdge was rejected because of a path of two or more edges
C4_Witness ==
    /\ gop.op = "AddEdge"
    /\ gop.err = ErrCyclic
    /\ gop.args[1].hash # gop.args[2].hash
    /\ ~hasChild(d, d.hashToIdx[gop.args[2].hash], d.hashToIdx[gop.args[1].hash])

C5_NoOverlap ==
    \A t \in DOMAIN tasks :
        tasks[t].pc = "runFunc" =>
            \A c \in Desc(d, TaskNode(t)) :
                /\ runFuncExecuted[c]
                /\ \A u \in DOMAIN tasks : TaskNode(u) = c => tasks[u].pc # "runFunc"

C5_NeverAfter ==
    \A n \in Ids(d) : calls[n] > 0 => \A c \in Desc(d, n) : calls'[c] = calls[c]

\* C5: the run function of a node starts only after the run function of
\* every child has returned without error (now or memoized), and it never
\* overlaps with or precedes a run function of one of its descendants.
C5_ChildrenFirst == [](C5_NoOverlap) /\ [][C5_NeverAfter]_vars

\* the run function of a node with grandchildren is in progress
C5_Witness ==
    \E t \in DOMAIN tasks :
        /\ tasks[t].pc = "runFunc"
        /\ \E c \in ChildSet(d, TaskNode(t)) : ChildSet(d, c) # {}

KidErrs(t) == {tasks[k].err : k \in {k \in Kids(t) : k \in DOMAIN tasks}} \ {Nil}

\* C6 as stated: a child's error reaches the root and run(roots) yields it.
\* Read at the end of the iteration: every root whose evaluation returned
\* the error of a descendant has had that error yielded.
C6_ErrorYielded ==
    (cons.pc = "returned" /\ ~cancelled /\ rootsErr = NoErr) =>
        \A i \in DOMAIN roots :
            (tasks[<<i>>].pc = "done" /\ KidErrs(<<i>>) # {}) =>
                \E k \in DOMAIN yielded :
                    yielded[k].idx = i /\ yielded[k].err = tasks[<<i>>].err

C6_ShortCircuitStep ==
    \A t \in DOMAIN tasks :
        (tasks[t].pc = "wait" /\ KidErrs(t) # {}) =>
            /\ tasks'[t].pc \in {"wait", "done"}
            /\ calls'[TaskNode(t)] = calls[TaskNode(t)]

C6_ErrorReturned ==
    /\ \A t \in DOMAIN tasks :
          (tasks[t].pc = "done" /\ KidErrs(t) # {}) =>
              /\ tasks[t].err \in KidErrs(t)
              /\ tasks[t].err \in Desc(d, TaskNode(t))
    /\ rootsErr = NoErr =>
          \A k \in DOMAIN yielded :
              KidErrs(<<yielded[k].idx>>) # {} => yielded[k].err \in KidErrs(<<yielded[k].idx>>)

\* C6 (amended): an evaluation of N in which a child's evaluation returned
\* an error does not invoke N's run function and returns one of the errors
\* of its children; a pair yielded for a root whose evaluation failed this
\* way carries that error.
C6_ShortCircuit == [](C6_ErrorReturned) /\ [][C6_ShortCircuitStep]_vars

\* the error of a grandchild was yielded for a root
C6_Witness ==
    \E k \in DOMAIN yielded :
        /\ rootsErr = NoErr
        /\ yielded[k].err # Nil
        /\ yielded[k].err \in Desc(d, roots[yielded[k].idx]) \ ChildSet(d, roots[yielded[k].idx])

C7_SameValue ==
    /\ \A t \in DOMAIN tasks :
          (tasks[t].pc = "done" /\ tasks[t].err = Nil) =>
              /\ runFuncExecuted[TaskNode(t)]
              /\ returned[TaskNode(t)] = <<tasks[t].val>>
    /\ \A t, u \in DOMAIN tasks :
          (TaskNode(t) = TaskNode(u) /\ tasks[t].pc = "done" /\ tasks[u].pc = "done"
              /\ tasks[t].err = Nil /\ tasks[u].err = Nil) => tasks[t].val = tasks[u].val

C7_NoRerun ==
    \A n \in Ids(d) : runFuncExecuted[n] => calls'[n] = calls[n] /\ result'[n] = result[n]

\* C7: every parent or root that reaches a node receives the same value, the
\* one returned by the invocation of its run function that succeeded; once
\* that value is memoized the run function is not invoked again.
C7_MemoizedFanIn == [](C7_SameValue) /\ [][C7_NoRerun]_vars

\* two parents received the value of a shared child, which ran once
C7_Witness ==
    \E t, u \in DOMAIN tasks :
        /\ t # u
        /\ Len(t) > 1
        /\ TaskNode(t) = TaskNode(u)
        /\ tasks[t].pc = "done" /\ tasks[u].pc = "done"
        /\ tasks[t].err = Nil /\ tasks[u].err = Nil
        /\ calls[TaskNode(t)] = 1

\* ---------------------------------------------------------------------
\* Properties of the engine, the file cache and the fingerprints
\* ---------------------------------------------------------------------
\* the finished runs of the engine
FirstRun == hist[1]
SecondRun == hist[2]
Successful(run) == run.err = NoErr

\* C8: after a first successful run of a plan, a second run on the same
\* directories starts no subprocess, reports every terminal as skipped or
\* copied and none as created, and leaves the same set of files.
C8_Idempotence ==
    (Len(hist) >= 2 /\ Successful(FirstRun)) =>
        /\ SecondRun.procs = <<>>
        /\ Len(SecondRun.logs) = Len(plan.files)
        /\ \A k \in DOMAIN SecondRun.logs : SecondRun.logs[k].op \in {skipped, copied}
        /\ SecondRun.disk = FirstRun.disk

\* the fingerprint of the desired name has indexed paths
Duplicates(out) ==
    IF extractHash(out) \in DOMAIN existing THEN existing[extractHash(out)] ELSE {}

PadJobs ==
    {i \in DOMAIN built : built[i].spec.kind = "soxExtendLength" /\ built[i].spec.length > 0}

\* C10: two adaptive-pad jobs on the same input file with different
\* requested lengths have different fingerprints.
C10_PadFingerprint ==
    \A i, j \in PadJobs :
        (/\ built[i].spec.file = built[j].spec.file
         /\ built[i].spec.length # built[j].spec.length)
        => jobHash(built[i].job) # jobHash(built[j].job)

\* the job spec without the directories of its cmdBuilder
SansDirs(spec) == [spec EXCEPT !.cb.tempDir = "", !.cb.outputDir = ""]

\* C11: a job spec built under two choices of the temp and output
\* directories gets the same fingerprint and the same output base name
C11_FingerprintStability ==
    \A i, j \in DOMAIN built :
        SansDirs(built[i].spec) = SansDirs(built[j].spec)
        => /\ jobHash(built[i].job) = jobHash(built[j].job)
           /\ BasePath(outputFile(built[i].job)) = BasePath(outputFile(built[j].job))

\* a conversion was built under both choices of the directories
C11_Witness ==
    \E i, j \in DOMAIN built :
        /\ built[i].spec.kind = "convert"
        /\ built[i].spec.cb.audioFormat = "Mp3"
        /\ SansDirs(built[i].spec) = SansDirs(built[j].spec)
        /\ built[i].spec.cb.tempDir # built[j].spec.cb.tempDir
        /\ jobHash(built[i].job) = jobHash(built[j].job)

\* the files of the output directory
OutFiles(dsk) == {p \in dsk : p.dir = OutputDir}
\* the files the pruning pass never sees: dot files and playlists
Unlisted(p) == (p.stem = "" /\ p.hash = "") \/ p.ext = ".m3u"

Busy == {t \in DOMAIN tasks : tasks[t].pc \in {"wait", "runFunc"}}

\* C13 as stated: no goroutine holds the lock of a node while the node's
\* children execute or while its run function is in progress
C13_LockFastPathOnly ==
    \A t \in Busy : lock[tasks[t].node] # t

\* C13: an evaluation of a node holds the node's lock from its entry until
\* it returns, while its children execute and while its run function is in
\* progress, so at most one evaluation of a node is past the entry
C13_LockHeldThroughout ==
    /\ \A t \in Busy : lock[tasks[t].node] = t
    /\ \A t, u \in Busy : tasks[t].node = tasks[u].node => t = u

\* a parent holds its lock while a child is inside its run function and
\* another evaluation of the parent's node waits at the entry
C13_Witness ==
    \E t \in Busy :
        /\ tasks[t].pc = "wait"
        /\ lock[tasks[t].node] = t
        /\ \E k \in Kids(t) : tasks[k].pc = "runFunc"
        /\ \E u \in DOMAIN tasks : tasks[u].node \in {tasks[k].node : k \in Kids(t)}
                                     /\ tasks[u].pc = "lock" /\ u \notin Kids(t)

\* the last pair that was yielded carries an error: the error of rootNodes
\* (index 0) or the error of a root
ErrorYielded ==
    /\ yielded # <<>>
    /\ (yielded[Len(yielded)].idx = 0 \/ yielded[Len(yielded)].err # Nil)
\* the context is cancelled and the consumer is past a yield or has returned
Halting == cancelled /\ cons.pc \in {"yielded", "returned"}

\* C14 as stated: nothing is yielded after a pair with an error, and
\* nothing is yielded once the context has been cancelled
C14_NoYieldAfterCancel ==
    [][(ErrorYielded \/ cancelled) => yielded' = yielded]_vars

\* C14: nothing is yielded after a pair with an error; once the context
\* has been cancelled at most one further pair is yielded, and nothing
\* after it
C14_YieldingStops ==
    [][/\ ErrorYielded => yielded' = yielded
       /\ (cancelled /\ yielded' # yielded) => Halting'
       /\ Halting => (yielded' = yielded /\ Halting')]_vars

\* the context was cancelled before the last root was yielded, and a root
\* that had completed stays without a pair
C14_Witness ==
    /\ cancelled
    /\ cons.pc = "returned"
    /\ yielded # <<>>
    /\ ~ErrorYielded
    /\ Len(yielded) < Len(roots)
    /\ done[Len(yielded) + 1]

\* the path of the terminal of the i-th track, as BatchCreate joined it
Terminal(i) == Join(OutputDir, BasePath(fc.playlist[i]))

\* the plan of two tracks of which the second repeats the text of the first
SharedText ==
    /\ Len(plan.files) = 2
    /\ plan.files[1].Segments = <<Text(Hello, 0)>>
    /\ plan.files[2].Segments = <<Text(Hello, 0), Silence(1)>>
SpeechJob == ttsCmd(Cb, Hello)
SpeechNodes == {n \in Ids(d) : jobHash(d.nodes[n].runFunc) = jobHash(SpeechJob)}
SpeechCalls == {i \in DOMAIN procs : procs[i].cmd = SpeechJob.node.cmdStr}
Produced(path) == \E p \in disk : NFC(p) = path

\* C15: two tracks with the same spoken text share the speech job: the graph
\* holds one node for it and its tool is called once in a run; at the end of
\* the first run the two terminals are different files and both are on the
\* disk
C15_SharedLeaf ==
    SharedText =>
        /\ Cardinality(SpeechNodes) <= 1
        /\ Cardinality(SpeechCalls) <= 1
        /\ (fc.pc = "end" /\ fc.run = 1) =>
               /\ Cardinality(SpeechNodes) = 1
               /\ Cardinality(SpeechCalls) = 1
               /\ Len(fc.playlist) = 2
               /\ Terminal(1) # Terminal(2)
               /\ Produced(Terminal(1))
               /\ Produced(Terminal(2))

C15_Witness ==
    /\ SharedText
    /\ fc.pc = "end"
    /\ fc.run = 1
    /\ Cardinality(SpeechCalls) = 1
    /\ \E n \in SpeechNodes : Cardinality({m \in Ids(d) : n \in ChildSet(d, m)}) = 2
    /\ Len(procs) = 5

\* the index holds no file of the name of the terminal but one of its
\* fingerprint
Reusable(path) ==
    /\ ~\E p \in Indexed(existing) : NFC(BasePath(p)) = BasePath(path)
    /\ extractHash(BasePath(path)) \in DOMAIN existing
Logged(op, path) == \E k \in DOMAIN fc.logs : fc.logs[k] = [op |-> op, path |-> path]
ToolArgs == UNION {{procs[j].args[k] : k \in DOMAIN procs[j].args} : j \in DOMAIN procs}

\* C16: a track whose content is on the disk under another name gets its
\* terminal by a copy: the terminal is in the output directory, the log says
\* copied, no tool is called for it, and when this is so for every track of
\* the plan no tool is called at all
C16_CrossTrackReuse ==
    /\ \A i \in DOMAIN fc.playlist :
          Reusable(Terminal(i)) =>
              /\ Logged(copied, Terminal(i))
              /\ Terminal(i).dir = OutputDir
              /\ Terminal(i) \in disk
              /\ Terminal(i) \notin ToolArgs
              /\ \A k \in DOMAIN fc.paths : fc.paths[k] # Terminal(i)
    /\ (/\ Len(fc.playlist) = Len(plan.files)
        /\ \A i \in DOMAIN fc.playlist : Reusable(Terminal(i))) => procs = <<>>

C16_Witness ==
    /\ fc.pc = "end"
    /\ fc.run = 1
    /\ Len(fc.playlist) = 1
    /\ Reusable(Terminal(1))
    /\ Terminal(1).stem = "my-file-"
    /\ fc.logs = << [op |-> copied, path |-> Terminal(1)] >>
    /\ Terminal(1) \in disk
    /\ procs = <<>>

\* the existing files answer exists or duplicate for the name out
Hit(out) ==
    \/ \E p \in Indexed(existing) : NFC(BasePath(p)) = out
    \/ ~extractHashPanics(out) /\ extractHash(out) \in DOMAIN existing
NodesOf(out) == {n \in Ids(d) : outputFile(d.nodes[n].runFunc) = out}

RECURSIVE Lowered(_, _)
\* out is the name of the wav file that stands for the segment s
Lowered(s, out) ==
    CASE s.type = "Silence" -> out.stem = "silence_" \o DurStr(s.length) \o "-"
      [] s.type = "Sound"   -> IF s.length <= 0 THEN out = s.value
                               ELSE out.stem = s.value.stem \o s.value.hash
                                               \o "_extended-" \o DurStr(s.length) \o "-"
      [] s.type = "Text"    -> IF s.value = Lit("")
                               THEN out.stem = "silence_" \o DurStr(s.length) \o "-"
                               ELSE IF s.length <= 0 THEN out.stem = "say-"
                               ELSE \E k \in 1..Len(out.stem) :
                                       /\ SubSeq(out.stem, 1, 4) = "say-"
                                       /\ SubSeq(out.stem, k, Len(out.stem))
                                             = "_extended-" \o DurStr(s.length) \o "-"
      [] s.type = "Group"   -> IF Len(s.values) = 0
                               THEN out.stem = "silence_" \o DurStr(s.length) \o "-"
                               ELSE IF s.length > 0
                               THEN \E k \in 1..Len(out.stem) :
                                       SubSeq(out.stem, k, Len(out.stem))
                                         = "_extended-" \o DurStr(s.length) \o "-"
                               ELSE IF Len(s.values) = 1
                               THEN Lowered(s.values[1], out)
                               ELSE out.stem = "concat-"

\* the node t is a convert job that reads the file wav
Converts(t, wav) ==
    LET job == d.nodes[t].runFunc
    IN  IF job.kind = "copyWav"
        THEN job.srcWavPath = wav
        ELSE /\ job.kind = "cmd"
             /\ job.cmdStr \in {"ffmpeg", "afconvert"}
             /\ \E k \in DOMAIN job.args : job.args[k] = Join(TempDir, wav)

\* the node b is the body of a track with the segments segs
IsBody(b, segs) ==
    LET job == d.nodes[b].runFunc
        out == outputFile(job)
    IN  IF Len(segs) = 1
        THEN Lowered(segs[1], out)
        ELSE /\ job.node.cmdStr = "sox"
             /\ out.stem = "concat-"
             /\ Len(job.node.args) = Len(segs) + 1
             /\ \A k \in DOMAIN segs :
                   /\ job.node.args[k].dir = TempDir
                   /\ Lowered(segs[k], BasePath(job.node.args[k]))
             /\ {outputFile(d.nodes[c].runFunc) : c \in ChildSet(d, b)}
                   = {BasePath(job.node.args[k]) : k \in DOMAIN segs}

\* C18: a track whose terminal is not among the existing files is lowered
\* to one convert job with a single child, the body, whose file it reads;
\* the body of a track of one segment is the job of that segment, otherwise
\* a concatenation whose arguments are the files of the segments in their
\* order and whose children are the jobs of the segments. For one second of
\* silence as mp3 the tools called are sox for the silence and then ffmpeg
C18_TrackLowering ==
    /\ \A i \in DOMAIN fc.playlist :
          ~Hit(BasePath(Terminal(i))) =>
             \E k \in DOMAIN fc.paths :
                /\ fc.paths[k] = Terminal(i)
                /\ fc.nodesToRun[k].hash \in DOMAIN d.hashToIdx
                /\ LET t == d.hashToIdx[fc.nodesToRun[k].hash]
                   IN  /\ Len(Children(d, t)) = 1
                       /\ Converts(t, outputFile(d.nodes[Children(d, t)[1]].runFunc))
                       /\ IsBody(Children(d, t)[1], plan.files[i].Segments)
    /\ (/\ fc.pc = "end"
        /\ plan.format = "Mp3"
        /\ Len(plan.files) = 1
        /\ plan.files[1].Segments = <<Silence(1)>>
        /\ ~Hit(BasePath(Terminal(1)))) =>
           /\ Len(procs) = 2
           /\ procs[1].cmd = "sox"
           /\ RenderAll(procs[1].args)
                 = <<"-n", "-r", "22050", Render(procs[1].args[4]), "trim", "0.0", "1.00">>
           /\ procs[1].args[4].dir = TempDir
           /\ procs[1].args[4].stem = "silence_1s-"
           /\ procs[1].args[4].ext = ".wav"
           /\ procs[2].cmd = "ffmpeg"
           /\ procs[2].args = << Lit("-i"), procs[1].args[4], Lit("-ab"), Lit("256k"),
                                 Lit("-ar"), Lit("44100"), Lit("-ac"), Lit("2"),
                                 Terminal(1) >>
           /\ Terminal(1).stem = "my-file-"
           /\ Terminal(1).ext = ".mp3"

C18_Witness ==
    /\ fc.pc = "end"
    /\ fc.run = 1
    /\ \/ /\ plan.files[1].Segments = <<Silence(1)>>
          /\ plan.format = "Mp3"
          /\ Len(procs) = 2
       \/ /\ SharedText
          /\ Len(procs) = 5
          /\ \E b \in Ids(d) : /\ Len(Children(d, b)) = 2
                                /\ d.nodes[b].runFunc.kind = "fileCache"
                                /\ IsBody(b, plan.files[2].Segments)

FormatExt == [Mp3 |-> ".mp3", M4a |-> ".m4a", Wav |-> ".wav"]

C19_Witness ==
    /\ fc.pc = "end"
    /\ fc.run = 2
    /\ Len(fc.playlist) = 2
    /\ Logged(skipped, Terminal(1))
    /\ Logged(copied, Terminal(2))
    /\ \E k \in DOMAIN hist[1].logs : hist[1].logs[k].op = created

\* C19: when BatchCreate has succeeded the playlist holds one entry per
\* track, in the order of the tracks: the absolute path of the file in the
\* output directory that carries the name of the track, its fingerprint and
\* the extension of the format, whatever the operation logged for it; the
\* files to keep are the playlist file and these terminals
C19_PlaylistAndKeepSet ==
    fc.written =>
        /\ Len(fc.playlist) = Len(plan.files)
        /\ \A i \in DOMAIN fc.playlist :
              /\ fc.playlist[i].dir = Cwd \o "/" \o OutputDir
              /\ fc.playlist[i].ext = FormatExt[plan.format]
              /\ IF plan.format = "Wav"
                 THEN fc.playlist[i].stem = plan.files[i].Name /\ fc.playlist[i].hash = ""
                 ELSE /\ fc.playlist[i].stem = plan.files[i].Name \o "-"
                      /\ fc.playlist[i].hash # ""
              /\ Terminal(i) \in fc.keep
              /\ \E op \in {created, copied, skipped} : Logged(op, Terminal(i))
        /\ fc.keep = {Str(OutputDir, "playlist", "", ".m3u")}
                        \cup {Terminal(i) : i \in DOMAIN fc.playlist}

\* the Node objects handed to the last graph-construction call
ArgNodes(op) ==
    IF op.op = "AddEdges"
    THEN {Flat(op.args)[i] : i \in DOMAIN Flat(op.args)}
    ELSE {op.args[i] : i \in DOMAIN op.args}

C20_OnePerHash ==
    /\ Cardinality(DOMAIN d.hashToIdx) = Len(d.nodes)
    /\ \A h \in DOMAIN d.hashToIdx :
          /\ d.hashToIdx[h] \in Ids(d)
          /\ d.nodes[d.hashToIdx[h]].id = d.hashToIdx[h]
    /\ \A h, k \in DOMAIN d.hashToIdx : d.hashToIdx[h] = d.hashToIdx[k] => h = k

C20_FirstWins ==
    /\ \A h \in DOMAIN d.hashToIdx :
          /\ h \in DOMAIN d'.hashToIdx
          /\ d'.hashToIdx[h] = d.hashToIdx[h]
          /\ d'.nodes[d.hashToIdx[h]].name = d.nodes[d.hashToIdx[h]].name
          /\ d'.nodes[d.hashToIdx[h]].runFunc = d.nodes[d.hashToIdx[h]].runFunc
    /\ \A n \in ArgNodes(gop') :
          (n.hash \in DOMAIN d'.hashToIdx /\ n.hash \notin DOMAIN d.hashToIdx) =>
              \E m \in ArgNodes(gop') :
                  /\ m.hash = n.hash
                  /\ d'.nodes[d'.hashToIdx[n.hash]].name = m.name
                  /\ d'.nodes[d'.hashToIdx[n.hash]].runFunc = m.run
    /\ Len(d'.nodes) <= Len(d.nodes)
          + Cardinality({n.hash : n \in ArgNodes(gop')} \ DOMAIN d.hashToIdx)
    /\ gop'.op = "AddEdge" =>
          Len(d'.nodes) = Len(d.nodes)
             + Cardinality({n.hash : n \in ArgNodes(gop')} \ DOMAIN d.hashToIdx)

\* C20: the graph holds one node per hash; a graph-construction call leaves
\* every node that is present with its index, its name and its run function,
\* and adds a node only for a hash that is not present, so a call whose
\* nodes are all present does not change the number of nodes
C20_NodeDeduplication == [](C20_OnePerHash) /\ [][C20_FirstWins]_vars

\* AddEdge was called with an object of a hash that is present: the node of
\* the first insertion is kept
C20_Witness ==
    /\ gop.op = "AddEdge"
    /\ gop.err = NoErr
    /\ gop.args[1].name = "other"
    /\ gop.args[2].name = "other"
    /\ Len(d.nodes) = 3
    /\ d.nodes[d.hashToIdx[gop.args[1].hash]].name = "first"
    /\ d.nodes[d.hashToIdx[gop.args[2].hash]].runFunc = "first"
    /\ hasChild(d, d.hashToIdx[gop.args[1].hash], d.hashToIdx[gop.args[2].hash])

\* the nodes without parent and without child
Orphans(g) ==
    {n \in Ids(g) : Children(g, n) = <<>> /\ \A m \in Ids(g) : n \notin ChildSet(g, m)}

\* C21: when the graph has more than one node and one of them has neither
\* parent nor child, RunRootNodes runs no node and yields one pair, which
\* carries the error of the orphaned node; the node of a graph of one node
\* is the root and is run
C21_OrphanDetection ==
    /\ (Len(d.nodes) > 1 /\ Orphans(d) # {}) =>
          /\ rootsErr = ErrOrphaned
          /\ roots = <<>>
          /\ DOMAIN tasks = {}
          /\ \A n \in Ids(d) : calls[n] = 0 /\ ~runFuncExecuted[n]
          /\ \A k \in DOMAIN yielded :
                k = 1 /\ yielded[k] = [idx |-> 0, val |-> Zero, err |-> ErrOrphaned]
          /\ cons.pc \in {"rootsErr", "returned"}
          /\ cons.pc = "returned" => Len(yielded) = 1
    /\ Len(d.nodes) = 1 =>
          /\ rootsErr = NoErr
          /\ roots = <<1>>
          /\ (cons.pc = "returned" /\ ~cancelled /\ yielded # <<>>) =>
                calls[1] = 1 /\ yielded[1].idx = 1

C21_Witness ==
    /\ Len(d.nodes) = 3
    /\ Orphans(d) = {3}
    /\ ChildSet(d, 1) = {2}
    /\ cons.pc = "returned"
    /\ Len(yielded) = 1
    /\ yielded[1].idx = 0
    /\ rootsErr = ErrOrphaned

\* the edge from the node of hash p to the node of hash c is in the graph
EdgePresent(g, p, c) ==
    /\ p \in DOMAIN g.hashToIdx
    /\ c \in DOMAIN g.hashToIdx
    /\ g.hashToIdx[c] \in ChildSet(g, g.hashToIdx[p])

\* every node and every link of the chain ns is in the graph
ChainPresent(g, ns) ==
    /\ \A i \in DOMAIN ns : ns[i].hash \in DOMAIN g.hashToIdx
    /\ \A i \in 1..(Len(ns) - 1) : EdgePresent(g, ns[i].hash, ns[i + 1].hash)

C22_NoRepeatedChild ==
    \A n \in Ids(d) :
        \A i, j \in DOMAIN Children(d, n) : Children(d, n)[i] = Children(d, n)[j] => i = j

C22_DuplicateStep ==
    /\ (gop'.op = "AddEdge" /\ EdgePresent(d, gop'.args[1].hash, gop'.args[2].hash)) =>
          gop'.err = NoErr /\ d' = d
    /\ (gop'.op = "AddChain" /\ ChainPresent(d, gop'.args)) =>
          gop'.err = NoErr /\ d' = d

\* C22: AddEdge with an edge that is present and AddChain with a chain that
\* is present return no error and leave the graph as it is; no node is
\* twice among the children of a node
C22_DuplicateIdempotent == [](C22_NoRepeatedChild) /\ [][C22_DuplicateStep]_vars

\* AddChain was called with the chain 1 -> 2 after the edge 1 -> 3 had been
\* added behind the edge 1 -> 2
C22_Witness ==
    /\ gop.op = "AddChain"
    /\ gop.err = NoErr
    /\ Len(gop.args) = 2
    /\ gop.args[1].hash = 1 /\ gop.args[2].hash = 2
    /\ d.nodes[1].children = <<2, 3>>

IsAscii(bs) == \A i \in DOMAIN bs : bs[i] < 128
\* the value of one digit of %XX, or 16 when the byte is no such digit
HexVal(b) == IF b \in 48..57 THEN b - 48 ELSE IF b \in 65..70 THEN b - 55 ELSE 16

RECURSIVE Unescape(_, _)
\* the bytes that the text bs[i..] stands for; <<256>> when a '%' is not
\* followed by two digits
Unescape(bs, i) ==
    IF i > Len(bs) THEN <<>>
    ELSE IF bs[i] # 37 THEN <<bs[i]>> \o Unescape(bs, i + 1)
    ELSE IF i + 2 > Len(bs) \/ HexVal(bs[i + 1]) = 16 \/ HexVal(bs[i + 2]) = 16
         THEN <<256>>
         ELSE <<16 * HexVal(bs[i + 1]) + HexVal(bs[i + 2])>> \o Unescape(bs, i + 3)

Escaped(bs) == {i \in DOMAIN bs : bs[i] > 127 \/ bs[i] = 37}

C23_AsciiUnchanged ==
    fc.written =>
        \A i \in DOMAIN fc.text :
            /\ IsAscii(fc.playlist[i].absFilePath) => fc.text[i].url = fc.playlist[i].absFilePath
            /\ IsAscii(fc.text[i].url)
            /\ Len(fc.text[i].url)
                  = Len(UTF8(Decompose(fc.playlist[i].absFilePath)))
                    + 2 * Cardinality({k \in DOMAIN UTF8(Decompose(fc.playlist[i].absFilePath)) :
                                         UTF8(Decompose(fc.playlist[i].absFilePath))[k] > 127})

\* C23: the escaped path has bytes below 128 only; it is the UTF-8 text of
\* the decomposed path in which every byte above 127 and every '%' is
\* written as '%' and two upper-case hexadecimal digits, all other bytes as
\* they are, so a path of ASCII bytes without '%' is unchanged
C23_Escape ==
    fc.written =>
        \A i \in DOMAIN fc.text :
            /\ IsAscii(fc.text[i].url)
            /\ Unescape(fc.text[i].url, 1) = UTF8(Decompose(fc.playlist[i].absFilePath))
            /\ Len(fc.text[i].url)
                  = Len(UTF8(Decompose(fc.playlist[i].absFilePath)))
                    + 2 * Cardinality(Escaped(UTF8(Decompose(fc.playlist[i].absFilePath))))
            /\ (IsAscii(fc.playlist[i].absFilePath)
                  /\ \A k \in DOMAIN fc.playlist[i].absFilePath :
                        fc.playlist[i].absFilePath[k] # 37) =>
                     fc.text[i].url = fc.playlist[i].absFilePath

\* the path "/u-diaeresis" followed by '%' was written as /u%CC%88%25
C23_Witness ==
    /\ fc.pc = "m3u"
    /\ fc.written
    /\ fc.playlist[1].absFilePath = <<47, 252, 37>>
    /\ fc.text[1].url = <<47, 117, 37, 67, 67, 37, 56, 56, 37, 50, 53>>

\* the name is <logical>-<fingerprint>.<ext>
WellNamed(a) ==
    /\ a.hash \notin {"", Placeholder}
    /\ Len(a.stem) >= 2
    /\ SubSeq(a.stem, Len(a.stem), Len(a.stem)) = "-"
    /\ a.ext # ""

\* C24: every file a job of the graph writes, every terminal that is to be
\* kept and every artifact on the disk is named <logical>-<fingerprint>.<ext>
C24_FilenameFormat ==
    /\ \A n \in Ids(d) : WellNamed(outputFile(d.nodes[n].runFunc))
    /\ \A p \in fc.keep : p = Str(OutputDir, "playlist", "", ".m3u") \/ WellNamed(p)
    /\ \A p \in disk : p.ext \in {".wav", ".mp3", ".m4a"} => WellNamed(p)

\* BatchCreate has returned an error: nothing was written to the playlist
\* and the summary of the run carries that error
C25_Failed ==
    fc.pc = "failed" =>
        /\ fc.err # NoErr
        /\ ~fc.written
        /\ hist # <<>>
        /\ hist[Len(hist)].err = fc.err
        /\ hist[Len(hist)].logs = fc.logs

\* the first error stays, nothing is built or consumed after it, a file
\* leaves the output directory only in a pruning pass after a run without
\* error, and a failed engine is only replaced by a new one
C25_Step ==
    /\ (fc.err # NoErr /\ fc'.run = fc.run) =>
          /\ fc'.err = fc.err
          /\ fc'.logs = fc.logs
          /\ fc'.playlist = fc.playlist
          /\ fc'.keep = fc.keep
          /\ ~fc'.written
          /\ d' = d
    /\ OutFiles(disk) \ disk' # {} =>
          /\ fc.pc = "prune"
          /\ fc.err = NoErr
          /\ fc.written
    /\ fc.pc = "failed" => fc'.pc = "created" /\ fc'.run = fc.run + 1

\* C25: BatchCreate returns the first error of building or running; when it
\* returns an error the playlist was not written with entries and no file
\* of the output directory was deleted, the pruning pass being skipped
C25_ErrorPropagation == [](C25_Failed) /\ [][C25_Step]_vars

\* a run failed while executing, with a file outside the keep set still in
\* the output directory
C25_Witness ==
    /\ fc.pc = "failed"
    /\ fc.err = "run failed"
    /\ OutFiles(disk) \ fc.keep # {}

\* a segment the builder cannot give a length: a silence, a group without
\* segments or a text without words, with a length that is not positive
Invalid(s) ==
    /\ s.length <= 0
    /\ \/ s.type = "Silence"
       \/ s.type = "Group" /\ s.values = <<>>
       \/ s.type = "Text" /\ s.value = Lit("")

HasInvalid(p) ==
    \E i \in DOMAIN p.files : \E j \in DOMAIN p.files[i].Segments :
        LET s == p.files[i].Segments[j]
        IN  \/ Invalid(s)
            \/ s.type = "Group" /\ \E k \in DOMAIN s.values : Invalid(s.values[k])

\* the job of a silence that has no positive length
InvalidSilence(job) ==
    /\ job.kind = "fileCache"
    /\ job.node.kind = "cmd"
    /\ job.node.execCmdCtx.fn = "silence"
    /\ job.node.execCmdCtx.duration <= 0

\* the error BatchCreate returned is the one of the invalid segment
InvalidSegmentErr ==
    \/ fc.err = "text is empty and length is zero"
    \/ /\ fc.err = "run failed"
       /\ yielded # <<>>
       /\ yielded[Len(yielded)].idx # 0
       /\ yielded[Len(yielded)].err \in Ids(d)
       /\ InvalidSilence(d.nodes[yielded[Len(yielded)].err].runFunc)

\* C26: a plan with a silence, a group without segments or a text without
\* words whose length is not positive makes BatchCreate return the error of
\* that segment and leaves no file for it; a text without words that has a
\* positive length is lowered like a silence of that length
C26_InvalidRejected ==
    /\ HasInvalid(plan) =>
          /\ fc.pc \notin {"prune", "end"}
          /\ fc.pc = "failed" => InvalidSegmentErr
          /\ \A p \in disk : p.stem # "silence_" \o DurStr(0) \o "-"
    /\ \A n \in 1..MaxDur :
          textToWav(d, Cb, Text(Lit(""), n)) = toWav(d, Cb, Silence(n))

\* the files the body of a job reads
RECURSIVE InputFiles(_)
InputFiles(job) ==
    CASE job.kind = "fileCache" -> InputFiles(job.node)
      [] job.kind = "noop"      -> {}
      [] job.kind = "copyWav"   -> {job.srcWavPath}
      [] job.kind = "cmd"       ->
            {job.args[i] : i \in {j \in DOMAIN job.args :
                /\ job.args[j].dir # ""
                /\ job.args[j].ext = ".wav"
                /\ BasePath(job.args[j]) # job.outFile}}

\* the job writes the file: a no-op job names a file and writes nothing
Writes(job, file) ==
    /\ outputFile(job) = file
    /\ ~(job.kind = "noop" \/ (job.kind = "fileCache" /\ job.node.kind = "noop"))

\* C27: when the body of a job of the graph starts, every file it reads was
\* indexed when the cache was set up or is the output of a descendant of
\* the job that has completed in this run
C27_InputsReady ==
    \A t \in DOMAIN tasks :
        tasks[t].pc = "runFunc" =>
            \A f \in InputFiles(d.nodes[tasks[t].node].runFunc) :
                \/ f \in Indexed(existing)
                \/ \E m \in Desc(d, tasks[t].node) :
                      /\ Writes(d.nodes[m].runFunc, BasePath(f))
                      /\ runFuncExecuted[m]

\* C28: when BatchCreate has returned without error, the file of every
\* playlist entry is in the output directory, for tracks of the same content
\* under different names too
C28_TerminalsProduced ==
    fc.pc \in {"prune", "end"} =>
        /\ Len(fc.playlist) = Len(plan.files)
        /\ \A i \in DOMAIN fc.playlist :
              /\ Terminal(i).dir = OutputDir
              /\ Produced(Terminal(i))

\* the tasks a task is waiting for: the holder of the lock it wants, or the
\* children it has started that have not returned
WaitsFor(t) ==
    CASE tasks[t].pc = "lock" ->
            IF lock[tasks[t].node] = Free THEN {} ELSE {lock[tasks[t].node]}
      [] tasks[t].pc = "wait" -> {k \in Kids(t) : tasks[k].pc # "done"}
      [] OTHER -> {}

RECURSIVE WaitReach(_)
WaitReach(S) ==
    LET S2 == S \cup UNION {WaitsFor(t) : t \in S}
    IN  IF S2 = S THEN S ELSE WaitReach(S2)

NoCyclicWait == \A t \in DOMAIN tasks : t \notin WaitReach(WaitsFor(t))

\* a goroutine of an evaluation can take a step
CanStep(t) ==
    \/ tasks[t].pc = "lock" /\ lock[tasks[t].node] = Free
    \/ tasks[t].pc = "wait" /\ AllKidsDone(t)
    \/ tasks[t].pc = "runFunc"

AllReturned == \A t \in DOMAIN tasks : tasks[t].pc = "done"

\* a lock is held by a task that has not returned, and by no task when all
\* have returned
LocksHeldByRunning ==
    \A n \in DOMAIN lock :
        lock[n] # Free =>
            /\ lock[n] \in DOMAIN tasks
            /\ tasks[lock[n]].node = n
            /\ tasks[lock[n]].pc \in {"wait", "runFunc"}

\* C29: on an acyclic graph no set of goroutines waits in a cycle on node
\* locks, some goroutine can always go on while an evaluation has not
\* returned, and every evaluation of a node returns in the end when the
\* run functions return
C29_NoDeadlock ==
    /\ [](Acyclic(d) /\ NoCyclicWait /\ LocksHeldByRunning)
    /\ []((~AllReturned) => \E t \in DOMAIN tasks : CanStep(t))
    /\ <>[]AllReturned

\* on the diamond two goroutines have met at the lock of the shared node,
\* one of them waiting while the other held it, and every evaluation has
\* returned
C29_Witness ==
    /\ Len(d.nodes) = 4
    /\ \E n \in Ids(d) : \E t, u \in DOMAIN tasks :
          /\ t # u
          /\ tasks[t].node = n
          /\ tasks[u].node = n
          /\ Len(t) = 3
          /\ Len(u) = 3
    /\ AllReturned
    /\ \A n \in Ids(d) : calls[n] = 1

\* the flag of a node says that its run function has returned once without
\* error, and the stored result is what it returned; without the flag the
\* stored result is the zero value
C30_Flag ==
    \A n \in DOMAIN runFuncExecuted :
        /\ Len(returned[n]) <= 1
        /\ runFuncExecuted[n] <=> Len(returned[n]) = 1
        /\ runFuncExecuted[n] => result[n] = returned[n][1]
        /\ ~runFuncExecuted[n] => result[n] = Zero

\* a run function that returns an error leaves flag and result as they
\* were, a set flag and its result stay, and running changes no node and no
\* edge
C30_Step ==
    /\ \A t \in DOMAIN tasks :
          (tasks[t].pc = "runFunc" /\ tasks'[t].pc = "done" /\ tasks'[t].err # Nil) =>
              /\ ~runFuncExecuted'[tasks[t].node]
              /\ result'[tasks[t].node] = Zero
    /\ \A n \in DOMAIN runFuncExecuted :
          runFuncExecuted[n] => runFuncExecuted'[n] /\ result'[n] = result[n]
    /\ d' = d

\* C30: the executed flag of a node is true exactly when its run function
\* has returned once without error, the stored result is then the returned
\* value; an error leaves the flag false and the result at the zero value;
\* running never changes the nodes and edges of the graph
C30_ExecutedFlag == [](C30_Flag) /\ [][C30_Step]_vars

\* a run function failed and succeeded when it was invoked again, while the
\* run function of another node has not been called yet
C30_Witness ==
    \E n \in DOMAIN runFuncExecuted :
        /\ runFuncExecuted[n]
        /\ calls[n] = 2
        /\ returned[n] = <<result[n]>>
        /\ \E t \in DOMAIN tasks : tasks[t].node = n /\ tasks[t].err = n
        /\ \E m \in DOMAIN runFuncExecuted : ~runFuncExecuted[m] /\ result[m] = Zero

\* the nodes of g are nodes of h with the index, name, run function and
\* children they have in g, and a node of h that is not in g was inserted
\* for one of the objects ns and has no children
OnlyInserted(g, h, ns) ==
    /\ Len(h.nodes) >= Len(g.nodes)
    /\ SubSeq(h.nodes, 1, Len(g.nodes)) = g.nodes
    /\ \A x \in DOMAIN g.hashToIdx : x \in DOMAIN h.hashToIdx /\ h.hashToIdx[x] = g.hashToIdx[x]
    /\ \A n \in (Len(g.nodes) + 1)..Len(h.nodes) :
          /\ h.nodes[n].children = <<>>
          /\ h.nodes[n].id = n
          /\ \E i \in DOMAIN ns :
                /\ ns[i].hash \notin DOMAIN g.hashToIdx
                /\ h.hashToIdx[ns[i].hash] = n
                /\ h.nodes[n].name = ns[i].name
                /\ h.nodes[n].runFunc = ns[i].run

\* the nodes of g keep index, name and run function in h
NodesKept(g, h) ==
    /\ Len(h.nodes) >= Len(g.nodes)
    /\ \A n \in Ids(g) :
          /\ h.nodes[n].id = g.nodes[n].id
          /\ h.nodes[n].name = g.nodes[n].name
          /\ h.nodes[n].runFunc = g.nodes[n].runFunc
    /\ \A x \in DOMAIN g.hashToIdx : x \in DOMAIN h.hashToIdx /\ h.hashToIdx[x] = g.hashToIdx[x]

\* the links of the chain ns before its k-th node
LinksBefore(g, ns, k) ==
    {<<g.hashToIdx[ns[j].hash], g.hashToIdx[ns[j + 1].hash]>> : j \in 1..(k - 2)}

C31_RejectedStep ==
    /\ (gop'.op = "AddEdge" /\ gop'.err = ErrCyclic) => OnlyInserted(d, d', gop'.args)
    /\ (gop'.op = "AddChain" /\ gop'.err # NoErr) =>
          /\ gop'.err = ErrCyclic
          /\ NodesKept(d, d')
          /\ \E k \in 2..Len(gop'.args) :
                /\ \A j \in 1..k : gop'.args[j].hash \in DOMAIN d'.hashToIdx
                /\ EdgeSet(d') = EdgeSet(d) \cup LinksBefore(d', gop'.args, k)
                /\ LET p == d'.hashToIdx[gop'.args[k - 1].hash]
                       c == d'.hashToIdx[gop'.args[k].hash]
                   IN  /\ p = c \/ p \in Desc(d', c)
                       /\ <<p, c>> \notin EdgeSet(d')

\* C31: an AddEdge that returns a cyclic-dependency error leaves every
\* child list and every node that was present as it was and at most
\* inserts its two nodes; an AddChain that fails at a link keeps the links
\* before it and adds nothing else
C31_RejectedFrame == [][C31_RejectedStep]_vars

\* AddChain(2, 3, 1) on the graph 1 -> 2 failed at its second link: node 3
\* and the link 2 -> 3 are in the graph
C31_Witness ==
    /\ gop.op = "AddChain"
    /\ gop.err = ErrCyclic
    /\ Len(gop.args) = 3
    /\ gop.args[1].hash = 2 /\ gop.args[2].hash = 3 /\ gop.args[3].hash = 1
    /\ Len(d.nodes) = 3
    /\ EdgeSet(d) = {<<1, 2>>, <<2, 3>>}

\* the files of the two directories that carry a fingerprint, before the
\* first lookup
Fingerprinted == {p \in disk : p.dir \in {"tmpdir", "outdir"} /\ p.hash # ""}

\* C32: the index covers both directories: every file with a fingerprint
\* that was in the temp or in the output directory when the index was taken
\* is in the set of its fingerprint, and a lookup of a desired name that is
\* the NFC-normalized base name of such a file answers skipped
C32_IndexCoversBoth ==
    ~lookup.called =>
        /\ \A p \in Fingerprinted :
              /\ p.hash \in DOMAIN existing
              /\ p \in existing[p.hash]
        /\ \A out \in Desired :
              (\E p \in Fingerprinted : NFC(BasePath(p)) = out) =>
                  \A r \in useExistingFile(existing, disk, noopNode(out)) :
                      r.op = skipped /\ r.disk = disk

\* where a job writes the file out: the jobs that write .wav files are the
\* intermediate jobs, they write into the temp directory; the convert jobs
\* write the other formats into the output directory
OwnPath(out) == Join(IF out.ext = ".wav" THEN "tmpdir" ELSE "outdir", out)

\* C33: on a duplicate hit the copy is written to the path where the job
\* would have written its output, in whichever directory the source is
C33_DuplicateAtOwnPath ==
    (lookup.called /\ lookup.op = copied) =>
        /\ OwnPath(lookup.desired) \in disk
        /\ disk \ lookup.before \subseteq {OwnPath(lookup.desired)}

\* C34: when the run function of a node is invoked, the values it is given
\* have one entry per child, and entry i is the result of the i-th child
\* in the order in which the edges were added, whichever child returned
\* first
C34_ValuesInEdgeOrder ==
    \A t \in DOMAIN tasks :
        tasks[t].pc = "runFunc" =>
            /\ Len(tasks[t].vals) = Len(Children(d, TaskNode(t)))
            /\ \A i \in DOMAIN tasks[t].vals :
                  /\ runFuncExecuted[Children(d, TaskNode(t))[i]]
                  /\ tasks[t].vals[i] = result[Children(d, TaskNode(t))[i]]
                  /\ tasks[t].vals[i] = returned[Children(d, TaskNode(t))[i]][1]

\* the run function of the root of the diamond is invoked with the two
\* different values that its children returned
C34_Witness ==
    \E t \in DOMAIN tasks :
        /\ tasks[t].pc = "runFunc"
        /\ Len(t) = 1
        /\ Len(d.nodes) = 4
        /\ Len(tasks[t].vals) = 2
        /\ tasks[t].vals[1] # tasks[t].vals[2]
        /\ \A i \in 1..2 : Len(Children(d, Children(d, TaskNode(t))[i])) = 1

\* the evaluations whose run function is in progress
InProgress == {t \in DOMAIN tasks : tasks[t].pc = "runFunc"}

\* C35: the number of run functions in progress at the same time has a
\* limit that does not grow with the graph: it stays below the number of
\* roots of the widest graph that is run
C35_BoundedConcurrency == Cardinality(InProgress) < FanIn

\* the paths the body of a job may write: the file of its tool or of its
\* copy, in the decomposed form for afconvert, and for a job behind the
\* cache the copies of a duplicate hit
OwnWrites(node) ==
    CASE node.kind = "noop"    -> {}
      [] node.kind = "copyWav" -> {node.dstWavPath}
      [] node.kind = "cmd"     ->
            IF node.execCmdCtx.fn = "extend"
            THEN {node.execCmdCtx.filePaddedPath}
            ELSE {IF node.cmdStr = "afconvert" THEN NFD(node.args[i]) ELSE node.args[i]
                  : i \in {j \in DOMAIN node.args : BasePath(node.args[j]) = node.outFile}}

WritePaths(job) ==
    IF job.kind = "fileCache"
    THEN OwnWrites(job.node)
           \cup {Join(p.dir, outputFile(job)) : p \in Duplicates(outputFile(job))}
    ELSE OwnWrites(job)

JobOf(t) == d.nodes[TaskNode(t)].runFunc

\* the bodies in progress belong to different nodes and write different
\* paths, and a body in progress writes no path of another node whose body
\* has run
C36_Disjoint ==
    \A t \in InProgress :
        /\ \A u \in InProgress \ {t} :
              /\ TaskNode(u) # TaskNode(t)
              /\ WritePaths(JobOf(t)) \cap WritePaths(JobOf(u)) = {}
        /\ \A m \in Ids(d) \ {TaskNode(t)} :
              calls[m] > 0 =>
                 WritePaths(JobOf(t)) \cap WritePaths(d.nodes[m].runFunc) = {}

\* what a body adds to the disk is among the paths of its job
C36_Writes ==
    \A t \in InProgress :
        tasks'[t].pc = "done" => (disk' \ disk) \subseteq WritePaths(JobOf(t))

\* C36: no two bodies that are in progress at the same time write the same
\* path, and no body writes a path that another node of the run has written
C36_NoOutputCollisions == [](C36_Disjoint) /\ [][C36_Writes]_vars

\* the bodies of two jobs that write files are in progress at the same time
C36_Witness ==
    \E t, u \in InProgress :
        /\ t # u
        /\ WritePaths(JobOf(t)) # {}
        /\ WritePaths(JobOf(u)) # {}
        /\ \E m \in Ids(d) \ {TaskNode(t), TaskNode(u)} : calls[m] > 0

\* the body of task t ends in this step and reports a duplicate copy
CopiesInBody(t) ==
    /\ tasks'[t].pc = "done"
    /\ tasks'[t].err = Nil
    /\ tasks'[t].val = copied

C37_Build ==
    (fc.pc = "build" /\ disk' # disk) =>
        /\ InProgress = {}
        /\ procs' = procs
        /\ \E i \in DOMAIN fc'.playlist :
              /\ i \notin DOMAIN fc.playlist
              /\ \E k \in DOMAIN fc'.logs :
                    fc'.logs[k] = [op |-> copied,
                                  path |-> Join(OutputDir, BasePath(fc'.playlist[i]))]
              /\ \E q \in Duplicates(BasePath(fc'.playlist[i])) :
                    disk' = disk \cup {Join(q.dir, BasePath(fc'.playlist[i]))}

\* the body of a cached job looks the existing files up when it ends: a file
\* of its name makes it skip, a file of its fingerprint under another name
\* is copied by the body itself, and in both cases no tool is called; a job
\* that is not cached never reports a copy
C37_Body ==
    \A t \in InProgress :
        (tasks'[t].pc = "done" /\ tasks'[t].err = Nil) =>
            IF JobOf(t).kind # "fileCache"
            THEN tasks'[t].val \notin {copied, skipped}
            ELSE With(outputFile(JobOf(t)), LAMBDA out :
                 IF \E q \in Indexed(existing) : NFC(BasePath(q)) = out
                 THEN tasks'[t].val = skipped /\ disk' = disk /\ procs' = procs
                 ELSE IF Duplicates(out) # {}
                 THEN /\ CopiesInBody(t)
                      /\ procs' = procs
                      /\ fc.pc = "run"
                      /\ \E q \in Duplicates(out) :
                            disk' = disk \cup {Join(q.dir, out)}
                 ELSE tasks'[t].val \notin {copied, skipped})

PadNodes ==
    {n \in Ids(d) : /\ d.nodes[n].runFunc.kind = "fileCache"
                    /\ d.nodes[n].runFunc.node.kind = "cmd"
                    /\ d.nodes[n].runFunc.node.execCmdCtx.fn = "extend"}

\* what the claim says of the command of the pad job n when the input is
\* measured as length and the copy branch reports op
PadOutcome(n, length, op) ==
    With(d.nodes[n].runFunc.node, LAMBDA c :
    With(extendRun(c, length, disk), LAMBDA r :
        /\ c.execCmdCtx.extendedLength > 0
        /\ c.execCmdCtx.filePaddedPath = Join(TempDir, outputFile(d.nodes[n].runFunc))
        /\ ~r.err =>
              /\ c.execCmdCtx.filePaddedPath \in r.disk
              /\ IF length >= c.execCmdCtx.extendedLength
                 THEN /\ r.disk = disk \cup {c.execCmdCtx.filePaddedPath}
                      /\ c.execCmdCtx.inputFilePath \in disk
                      /\ r.procs = Measure(c.execCmdCtx)
                      /\ r.op = op
                 ELSE /\ r.procs = Append(Measure(c.execCmdCtx),
                             Proc("sox", Append(c.args,
                                 Lit(SecStr(c.execCmdCtx.extendedLength - length)))))
                      /\ r.op = created))

C38_Step ==
    \A t \in InProgress :
        (/\ TaskNode(t) \in PadNodes
         /\ tasks'[t].pc = "done" /\ tasks'[t].err = Nil
         /\ tasks'[t].val = created) =>
            /\ JobOf(t).node.execCmdCtx.filePaddedPath \in disk'
            /\ Len(procs') \in {Len(procs) + 1, Len(procs) + 2}
            /\ procs'[Len(procs) + 1] = Measure(JobOf(t).node.execCmdCtx)[1]

ExecJobs ==
    {i \in DOMAIN built : /\ built[i].job.kind = "fileCache"
                          /\ built[i].job.node.kind = "cmd"}

\* the arguments of a command without the directories of the arguments that
\* name a file
SansDirPrefix(args) ==
    [k \in DOMAIN args |->
        IF args[k].dir # "" /\ args[k].ext # "" THEN BasePath(args[k]) ELSE args[k]]

\* two speech jobs with different texts have different fingerprints
C39_SpeechSeparate ==
    \A i, j \in ExecJobs :
        (/\ built[i].spec.kind = "ttsCmd" /\ built[j].spec.kind = "ttsCmd"
         /\ built[i].spec.file # built[j].spec.file)
        => jobHash(built[i].job) # jobHash(built[j].job)

\* C39: two jobs that run a command have the same fingerprint only if the
\* commands are the same and the arguments are the same up to the
\* directories of the arguments that name a file; two speech jobs whose
\* texts differ never have the same fingerprint
C39_FingerprintsSeparate ==
    /\ \A i, j \in ExecJobs :
          jobHash(built[i].job) = jobHash(built[j].job)
          => /\ built[i].job.node.cmdStr = built[j].job.node.cmdStr
             /\ SansDirPrefix(built[i].job.node.args) = SansDirPrefix(built[j].job.node.args)
    /\ C39_SpeechSeparate

====
